---- MODULE Spec2Model ----
(***************************************************************************)
(* Move Job Engine of the storage manager (backend/src/jobs.rs) together   *)
(* with the parts of config.rs, scanner.rs and main.rs it depends on.      *)
(*                                                                         *)
(* Strings are sequences of tokens.  A tier-root string is a sequence of   *)
(* path components and whitespace tokens (" "); a target string is a       *)
(* sequence of characters.  A path is the sequence of its components, so   *)
(* Path::starts_with is the component-wise prefix test.  Option<T> is the  *)
(* empty set (None) or a singleton (Some).                                 *)
(***************************************************************************)
EXTENDS Integers, Sequences, FiniteSets, TLC

(* ------------------------------ bounds -------------------------------- *)
MaxJobs == 2

MaxCrashes == 1

MaxClock == 1

MaxConfigEdits == 1

MaxFaults == 1

\* connections of the pool the model keeps (the pool allows max_connections)
PoolSize == 2

\* concurrent callers of create_move_job
MaxCallers == 2

\* runs of the scanner
MaxScans == 2

\* files in the scanned show directory
MaxFiles == 2

\* runs of the scan task next to the worker
MaxScanTasks == 1

\* files that appear in or vanish from the show directory between two runs
MaxDiskChanges == 1

\* rows of a shows table handed to deduplicate_show_paths
MaxRows == 4

\* trigger_scan handlers in flight together
MaxTriggers == 2

\* scan tasks spawned and not yet finished
MaxSpawned == 3

(* ------------------------------ strings ------------------------------- *)
WS == " "

RECURSIVE TrimStart(_)
TrimStart(s) ==
    IF s # <<>> /\ Head(s) = WS THEN TrimStart(Tail(s)) ELSE s

RECURSIVE TrimEnd(_)
TrimEnd(s) ==
    IF s # <<>> /\ s[Len(s)] = WS THEN TrimEnd(SubSeq(s, 1, Len(s) - 1)) ELSE s

\* str::trim
Trim(s) == TrimEnd(TrimStart(s))

LowerChar(ch) ==
    CASE ch = "H" -> "h" [] ch = "O" -> "o" [] ch = "T" -> "t"
      [] ch = "C" -> "c" [] ch = "L" -> "l" [] ch = "D" -> "d"
      [] OTHER -> ch

\* str::to_lowercase
ToLowercase(s) == [i \in 1..Len(s) |-> LowerChar(s[i])]

HOT == "hot"

COLD == "cold"

normalize_target(target) ==
    LET t == ToLowercase(Trim(target)) IN
    IF t = <<"h", "o", "t">> THEN {HOT}
    ELSE IF t = <<"c", "o", "l", "d">> THEN {COLD}
    ELSE {}

trimmed_root(value) ==
    LET trimmed == Trim(value) IN
    IF trimmed = <<>> THEN {} ELSE {trimmed}

(* ------------------------------- paths -------------------------------- *)
\* Path::starts_with
StartsWith(p, base) ==
    /\ Len(base) <= Len(p)
    /\ SubSeq(p, 1, Len(base)) = base

\* Path::strip_prefix, for a path that starts with base
StripPrefix(p, base) == SubSeq(p, Len(base) + 1, Len(p))

\* Path::join with a relative path
Join(base, rel) == base \o rel

(* ----------------------------- filesystem ----------------------------- *)
\* The filesystem is the set of the paths that exist.  A path whose last
\* component is a file name is a regular file, any other a directory.
FileNames ==
    {"f1", "f2", "tvshow.nfo", "TVSHOW.NFO", "e1.nfo", "e2.NFO", ".nfo", "a.mkv", "b.MKV",
     "c.mp4", "x.txt", "poster.jpg", "cover.jpg"}

IsFile(p) == p # <<>> /\ p[Len(p)] \in FileNames

\* bytes of a file, by name
FileSize(name) == IF name = "f2" THEN 2 ELSE 1

\* fs::remove_dir_all on an existing tree
RemoveDirAll(files, p) == {q \in files : ~StartsWith(q, p)}

\* fs::create_dir_all
CreateDirAll(files, p) == files \cup {SubSeq(p, 1, k) : k \in 1..Len(p)}

\* the entries a show directory can hold, relative to it, in walk order
\* (a directory before its content)
RelEntries == << <<"d">>, <<"f1">>, <<"f2">>, <<"poster.jpg">> >>

\* WalkDir::new(root): the root itself, then its content
WalkDir(files, root) ==
    <<root>> \o
    [i \in 1..Len(SelectSeq(RelEntries, LAMBDA r : Join(root, r) \in files)) |->
        Join(root, SelectSeq(RelEntries, LAMBDA r : Join(root, r) \in files)[i])]

RECURSIVE SumSizes(_)
SumSizes(ps) ==
    IF ps = {} THEN 0
    ELSE LET p == CHOOSE q \in ps : TRUE IN
         (IF IsFile(p) THEN FileSize(p[Len(p)]) ELSE 0) + SumSizes(ps \ {p})

\* scanner's aggregate size of a show directory
TreeSize(files, root) == SumSizes({q \in files : StartsWith(q, root)})

(* --------------------------- configuration ---------------------------- *)
CfgNormal == [hot_root |-> <<"h">>, cold_root |-> <<WS, "c">>]

CfgSwapped == [hot_root |-> <<"c">>, cold_root |-> <<"h">>]

CfgBlankCold == [hot_root |-> <<"h">>, cold_root |-> <<WS>>]

CfgSame == [hot_root |-> <<"h">>, cold_root |-> <<"h", WS>>]

\* what the configuration file can hold at startup: main only logs a failed
\* validation and goes on with the configuration as loaded
StartupConfigs == {CfgNormal, CfgSame}

\* payloads of PUT /api/config
ConfigPayloads == {CfgNormal, CfgSwapped, CfgBlankCold, CfgSame}

\* validate_root_path: Ok(None) when blank, Ok(Some) for an existing directory
RootIsValid(files, value) ==
    \A r \in trimmed_root(value) : r \in files /\ ~IsFile(r)

validate_config(files, cfg) ==
    /\ RootIsValid(files, cfg.hot_root)
    /\ RootIsValid(files, cfg.cold_root)
    /\ \A hot \in trimmed_root(cfg.hot_root) : \A cold \in trimmed_root(cfg.cold_root) :
          /\ hot # cold
          /\ ~StartsWith(hot, cold)
          /\ ~StartsWith(cold, hot)

(* ----------------------- tier detection (jobs.rs) --------------------- *)
\* Ok((location, root)) as a singleton, Err(PathMismatch) as the empty set
detect_location(show_path, hot_root, cold_root) ==
    IF StartsWith(show_path, hot_root) THEN {[location |-> HOT, root |-> hot_root]}
    ELSE IF StartsWith(show_path, cold_root) THEN {[location |-> COLD, root |-> cold_root]}
    ELSE {}

\* an alternative resolve_location_from_path that reports the other tier
resolve_location_flipped(path, cfg) ==
    IF trimmed_root(cfg.hot_root) = {} THEN [ok |-> FALSE, v |-> "MissingRoot"]
    ELSE IF trimmed_root(cfg.cold_root) = {} THEN [ok |-> FALSE, v |-> "MissingRoot"]
    ELSE LET hot_root == CHOOSE r \in trimmed_root(cfg.hot_root) : TRUE
             cold_root == CHOOSE r \in trimmed_root(cfg.cold_root) : TRUE
         IN IF StartsWith(path, hot_root) THEN [ok |-> TRUE, v |-> COLD]
            ELSE IF StartsWith(path, cold_root) THEN [ok |-> TRUE, v |-> HOT]
            ELSE [ok |-> FALSE, v |-> "PathMismatch"]

resolve_location_from_path(path, cfg) ==
    IF trimmed_root(cfg.hot_root) = {} THEN [ok |-> FALSE, v |-> "MissingRoot"]
    ELSE IF trimmed_root(cfg.cold_root) = {} THEN [ok |-> FALSE, v |-> "MissingRoot"]
    ELSE LET hot_root == CHOOSE r \in trimmed_root(cfg.hot_root) : TRUE
             cold_root == CHOOSE r \in trimmed_root(cfg.cold_root) : TRUE
         IN IF StartsWith(path, hot_root) THEN [ok |-> TRUE, v |-> HOT]
            ELSE IF StartsWith(path, cold_root) THEN [ok |-> TRUE, v |-> COLD]
            ELSE [ok |-> FALSE, v |-> "PathMismatch"]

(* ------------------------- scanner (scanner.rs) ----------------------- *)
\* an alternative that looks at the cold root first
determine_location_cold_first(show_path, hot_root, cold_root) ==
    IF \E r \in cold_root : StartsWith(show_path, r) THEN {COLD}
    ELSE IF \E r \in hot_root : StartsWith(show_path, r) THEN {HOT}
    ELSE {}

\* Option<&Path> roots: hot if under the hot root, else cold if under the
\* cold root, else None
determine_location(show_path, hot_root, cold_root) ==
    IF \E r \in hot_root : StartsWith(show_path, r) THEN {HOT}
    ELSE IF \E r \in cold_root : StartsWith(show_path, r) THEN {COLD}
    ELSE {}

\* Path::extension of a file name: what follows the last dot, unless the name
\* has no dot or only a leading one
extension(name) ==
    CASE name \in {"tvshow.nfo", "e1.nfo"} -> {"nfo"}
      [] name \in {"TVSHOW.NFO", "e2.NFO"} -> {"NFO"}
      [] name = "a.mkv" -> {"mkv"}
      [] name = "b.MKV" -> {"MKV"}
      [] name = "c.mp4" -> {"mp4"}
      [] name = "x.txt" -> {"txt"}
      [] name \in {"poster.jpg", "cover.jpg"} -> {"jpg"}
      [] OTHER -> {}

\* str::to_ascii_lowercase
to_ascii_lowercase(str) ==
    CASE str = "NFO" -> "nfo"
      [] str = "MKV" -> "mkv"
      [] str = "TVSHOW.NFO" -> "tvshow.nfo"
      [] str = "e2.NFO" -> "e2.nfo"
      [] str = "b.MKV" -> "b.mkv"
      [] str = "TITLE" -> "title"
      [] OTHER -> str

eq_ignore_ascii_case(a, b) == to_ascii_lowercase(a) = to_ascii_lowercase(b)

VIDEO_EXTENSIONS == {"mkv", "mp4", "avi", "mov", "m4v", "wmv"}

THUMBNAIL_NAMES == <<"folder.jpg", "poster.jpg", "cover.jpg", "thumb.jpg">>

file_name(path) == path[Len(path)]

is_video_file(path) ==
    \E ext \in extension(file_name(path)) :
       \E candidate \in VIDEO_EXTENSIONS : eq_ignore_ascii_case(ext, candidate)

is_nfo_file(path) ==
    \E ext \in extension(file_name(path)) : eq_ignore_ascii_case(ext, "nfo")

file_name_equals(path, expected) == eq_ignore_ascii_case(file_name(path), expected)

is_episode_nfo(path) == is_nfo_file(path) /\ ~file_name_equals(path, "tvshow.nfo")

\* the regular files WalkDir::new(show_path) yields
WalkFiles(files, show_path) ==
    {p \in files : StartsWith(p, show_path) /\ p # show_path /\ IsFile(p)}

\* an alternative count that takes the show-level file for an episode too
count_all_nfo_files(files, show_path) ==
    Cardinality({p \in WalkFiles(files, show_path) : is_nfo_file(p)})

count_episode_nfo_files(files, show_path) ==
    Cardinality({p \in WalkFiles(files, show_path) : is_episode_nfo(p)})

\* an alternative that takes the directory a video file lies in
season_directories_by_parent(files, show_path) ==
    {p[Len(p) - 1] :
        p \in {q \in WalkFiles(files, show_path) :
                  is_video_file(q) /\ Len(StripPrefix(q, show_path)) > 1}}

\* gather_stats: the first component, relative to the show, of the parent of
\* every video file that has one
season_directories(files, show_path) ==
    {StripPrefix(p, show_path)[1] :
        p \in {q \in WalkFiles(files, show_path) :
                  is_video_file(q) /\ Len(StripPrefix(q, show_path)) > 1}}

gather_stats(files, show_path) ==
    LET episode_count ==
            Cardinality({p \in WalkFiles(files, show_path) : is_video_file(p)})
        seasons == season_directories(files, show_path)
    IN [total_bytes |-> TreeSize(files, show_path),
        video_episode_count |-> episode_count,
        season_count |-> IF seasons = {} THEN (IF episode_count > 0 THEN 1 ELSE 0)
                         ELSE Cardinality(seasons)]

\* find_thumbnail: the first of THUMBNAIL_NAMES that is a file of the show
\* directory
find_thumbnail(files, show_path) ==
    LET found == SelectSeq(THUMBNAIL_NAMES,
                     LAMBDA n : Join(show_path, <<n>>) \in files
                                /\ IsFile(Join(show_path, <<n>>))) IN
    IF found = <<>> THEN {} ELSE {Join(show_path, <<found[1]>>)}

\* extract_title_from_nfo over the events the XML reader gives: the first text
\* that unescapes to something non-blank while in_title is set; an error of
\* the reader or the end of the input ends the search
RECURSIVE ExtractTitle(_, _)
ExtractTitle(events, in_title) ==
    IF events = <<>> THEN {}
    ELSE LET event == Head(events) IN
         CASE event.type = "Start" ->
                ExtractTitle(Tail(events),
                             in_title \/ eq_ignore_ascii_case(event.name, "title"))
           [] event.type = "Text" ->
                IF in_title /\ event.unescapes /\ Trim(event.text) # <<>>
                THEN {Trim(event.text)}
                ELSE ExtractTitle(Tail(events), in_title)
           [] event.type = "End" ->
                ExtractTitle(Tail(events),
                             in_title /\ ~eq_ignore_ascii_case(event.name, "title"))
           [] event.type \in {"Eof", "Err"} -> {}
           [] OTHER -> ExtractTitle(Tail(events), in_title)

extract_title_from_nfo(content) == ExtractTitle(content.events, FALSE)

\* read_tvshow_title: the file show_path/tvshow.nfo read as UTF-8, if it can be
read_tvshow_title(files, nfo, show_path) ==
    IF Join(show_path, <<"tvshow.nfo">>) \in files /\ nfo.utf8
    THEN extract_title_from_nfo(nfo)
    ELSE {}

\* build_show_candidate
build_show_candidate(files, nfo, show_path, hot_root, cold_root) ==
    LET folder_title == <<file_name(show_path)>>
        nfo_title == read_tvshow_title(files, nfo, show_path)
        stats == gather_stats(files, show_path)
        nfo_episode_count == count_episode_nfo_files(files, show_path)
    IN [title          |-> IF nfo_title # {} THEN nfo_title ELSE {folder_title},
        path           |-> show_path,
        location       |-> determine_location(show_path, hot_root, cold_root),
        size_bytes     |-> {stats.total_bytes},
        season_count   |-> {stats.season_count},
        episode_count  |-> {IF nfo_episode_count > 0 THEN nfo_episode_count
                            ELSE stats.video_episode_count},
        thumbnail_path |-> find_thumbnail(files, show_path),
        source         |-> {IF nfo_title # {} THEN "fs_scan_nfo" ELSE "fs_scan"}]

\* names a show directory can have, in read_dir order
ShowDirNames == <<"s", "t">>

\* scan_library: one candidate per immediate subdirectory of the library
scan_library(files, nfo, library_path, hot_root, cold_root) ==
    LET names == SelectSeq(ShowDirNames,
                     LAMBDA n : Join(library_path, <<n>>) \in files) IN
    [i \in 1..Len(names) |->
        build_show_candidate(files, nfo, Join(library_path, <<names[i]>>),
                             hot_root, cold_root)]

\* resolve_library_paths without explicit library_paths: the hot root, then
\* the cold root unless it is the same string
resolve_library_paths(hot_root, cold_root) ==
    LET hot == IF hot_root = {} THEN <<>> ELSE <<CHOOSE r \in hot_root : TRUE>>
        cold == IF cold_root = {} \/ cold_root = hot_root THEN <<>>
                ELSE <<CHOOSE r \in cold_root : TRUE>>
    IN hot \o cold

RECURSIVE ScanAll(_, _, _, _, _)
ScanAll(files, nfo, libraries, hot_root, cold_root) ==
    IF libraries = <<>> THEN <<>>
    ELSE scan_library(files, nfo, Head(libraries), hot_root, cold_root)
         \o ScanAll(files, nfo, Tail(libraries), hot_root, cold_root)

\* the candidates a run of run_scan discovers, in discovery order
Candidates(files, nfo, cfg) ==
    ScanAll(files, nfo,
            resolve_library_paths(trimmed_root(cfg.hot_root), trimmed_root(cfg.cold_root)),
            trimmed_root(cfg.hot_root), trimmed_root(cfg.cold_root))

\* the values upsert_show binds: the candidate's and the timestamp
BoundRow(show, timestamp) ==
    [title |-> show.title, path |-> show.path, location |-> show.location,
     size_bytes |-> show.size_bytes, season_count |-> show.season_count,
     episode_count |-> show.episode_count, thumbnail_path |-> show.thumbnail_path,
     source |-> show.source, last_scan |-> {timestamp}]

\* an alternative upsert that always inserts
insert_show(shws, show, timestamp) == Append(shws, BoundRow(show, timestamp))

\* upsert_show: INSERT ... ON CONFLICT(path) DO UPDATE; a row keeps its id
upsert_show(shws, show, timestamp) ==
    IF \E i \in DOMAIN shws : shws[i].path = show.path
    THEN [i \in DOMAIN shws |->
             IF shws[i].path = show.path THEN BoundRow(show, timestamp) ELSE shws[i]]
    ELSE Append(shws, BoundRow(show, timestamp))

\* an alternative SELECT that finds no row
select_no_id(shws, path) == {}

\* upsert_show's SELECT id FROM shows WHERE path = ?
select_existing_id(shws, path) == {i \in DOMAIN shws : shws[i].path = path}

\* what upsert_show returns: Updated when the SELECT found a row
UpsertResult(existing_id) == IF existing_id # {} THEN "Updated" ELSE "Inserted"

RECURSIVE upsert_all(_, _, _)
upsert_all(shws, candidates, timestamp) ==
    IF candidates = <<>> THEN shws
    ELSE upsert_all(upsert_show(shws, Head(candidates), timestamp), Tail(candidates),
                    timestamp)

\* the shows table after a run of run_scan in which no upsert fails
run_scan(shws, files, nfo, cfg, timestamp) ==
    upsert_all(shws, Candidates(files, nfo, cfg), timestamp)

(* ------------------------------- state -------------------------------- *)
VARIABLES
    shows,           \* shows table: row id -> the row's columns
    jobs,            \* jobs table: row id -> JobRow
    fs,              \* the paths that exist on disk
    config,          \* the shared Config (Arc<RwLock<Config>>)
    pc,              \* where the worker task stands
    job,             \* the worker's JobRow (fetch_next_job's result)
    config_snapshot, \* start_worker's config_snapshot
    source_at_start, \* the source tree on disk when execute_job began
    copied,          \* execute_job's copied
    walk,            \* entries WalkDir has still to yield
    err,             \* the Err execute_job returned
    admitted,        \* per job: the target and trimmed roots create_move_job used
    committed,       \* ids of the jobs whose finalization transaction committed
    claimed,         \* ids of the jobs marked running, in claim order
    firstExec,       \* first job executed since the last start (0: none yet)
    lastAdmission,   \* the last create_move_job call on record and its result
    crashes,         \* abrupt stops so far
    resumeCand,      \* ids of the jobs that were running at the last abrupt stop
    edits,           \* configuration edits so far
    faults,          \* failed filesystem and store operations so far
    last_rowid,      \* per pool connection: what last_insert_rowid() returns on it
    calls,           \* per caller of create_move_job: how far its call has got
    shutdown,        \* the value in the shutdown watch channel
    shutdown_at,     \* where the worker stood when the shutdown signal was sent
    scan_status,     \* AppState.scan_status.state
    scan_task,       \* the config_snapshot of the spawned scan task, if one runs
    scan_req,        \* the trigger_scan handler in flight
    move_req,        \* the create_move_job_handler in flight
    overlapped,      \* a trigger_scan and a move handler were in flight together
    responses,       \* the last rejection by trigger_scan's and the move handler's check
    second,          \* a second worker instance on the same store: its position and job
    nfo,             \* what the tvshow.nfo files on disk hold
    scan_run,        \* run_scan's position, locals and summary, and the runs so far
    probe,           \* a function called on its own: its arguments and what it returned
    triggers         \* concurrent trigger_scan handlers and the scan tasks they spawned

workerVars == <<pc, job, config_snapshot, source_at_start, copied, walk, err>>

\* what only the environment's actions change
envVars == <<config, lastAdmission, crashes, resumeCand, edits>>

\* what the worker, create_move_job as one step and update_config leave alone
serverVars == <<shutdown, shutdown_at, scan_status, scan_task, scan_req, move_req, overlapped>>

\* what only the specifications of the scanner and of the recorded handlers change
auxVars == <<responses, second, nfo, scan_run, probe, triggers>>

sideVars == <<last_rowid, calls, serverVars, auxVars>>

vars == <<shows, jobs, fs, config, pc, job, config_snapshot, copied, walk, err,
          admitted, committed, claimed, firstExec, lastAdmission, crashes, resumeCand,
          edits, faults, last_rowid, calls, source_at_start, shutdown, shutdown_at, scan_status,
          scan_task, scan_req, move_req, overlapped, responses, second, nfo, scan_run, probe, triggers>>

STATUS_QUEUED == "queued"

STATUS_RUNNING == "running"

STATUS_SUCCESS == "success"

STATUS_FAILED == "failed"

NoJob ==
    [id |-> 0, show_id |-> 0, source_path |-> <<>>, destination_path |-> <<>>,
     status |-> "", progress_bytes |-> {}, total_bytes |-> {}]

NoConfig == [hot_root |-> <<>>, cold_root |-> <<>>]

NoAdmission == [show_id |-> 0, target |-> <<>>, result |-> "None"]

\* the connections of the pool
Conns == 1..PoolSize

\* the requests that call create_move_job at the same time
Callers == 1..MaxCallers

\* a caller that has not called yet
NoCall == [pc |-> "idle", show_id |-> 0, target |-> "", root |-> <<>>, inserted |-> 0,
           job_id |-> 0, returned |-> {}]

\* the content of the show directories on disk at startup
ShowTree(root) == {root, Join(root, <<"f1">>), Join(root, <<"f2">>)}

SmallTree(root) == {root, Join(root, <<"d">>)}

InitialFiles ==
    {<<"h">>, <<"c">>} \cup ShowTree(<<"h", "s">>) \cup SmallTree(<<"c", "t">>)

\* ScanState
SCAN_IDLE == "idle"

SCAN_RUNNING == "running"

\* no shutdown signal was sent
NotSignalled == [pc |-> "", walk |-> <<>>]

\* a tvshow.nfo without content
NoNfo == [utf8 |-> TRUE, events |-> <<>>]

\* no answer is on record
NoResponses == [scan |-> "", move |-> ""]

\* a handler that is not in flight
NoRequest == [pc |-> "idle", config_snapshot |-> NoConfig]

\* ScanSummary
NoSummary == [scanned_libraries |-> 0, shows_processed |-> 0, inserted |-> 0, updated |-> 0]

\* run_scan has not been called
NoScanRun ==
    [pc |-> "idle", config |-> NoConfig, libraries |-> <<>>, queue |-> <<>>,
     summary |-> NoSummary, result |-> "", runs |-> 0, clean |-> FALSE, repeat |-> FALSE,
     existing_id |-> {}, upserted |-> <<>>, index_at_start |-> <<>>,
     index_at_end |-> <<>>, disk |-> {}, content |-> NoNfo, changes |-> 0]

\* the state after construction, with the files and tvshow.nfo content on disk;
\* scanned: the index holds what a scan under the startup configuration found;
\* failed: the number of operations that have failed already
\* the trigger_scan handlers that can be in flight together
TriggerIds == 1..MaxTriggers

\* no trigger_scan handler is in flight and no scan task is spawned
NoTriggers ==
    [req   |-> [k \in TriggerIds |->
                   [pc |-> "idle", config_snapshot |-> NoConfig, response |-> ""]],
     tasks |-> <<>>]

Start(files, content, scanned, failed) ==
    /\ fs = files
    /\ triggers = NoTriggers
    /\ config \in StartupConfigs
    /\ nfo = content
    /\ shows = IF scanned THEN run_scan(<<>>, fs, nfo, config, 0) ELSE <<>>
    /\ scan_run = NoScanRun
    /\ jobs = <<>>
    /\ pc = "loop"
    /\ job = NoJob
    /\ config_snapshot = NoConfig
    /\ source_at_start = {}
    /\ copied = 0
    /\ walk = <<>>
    /\ err = ""
    /\ admitted = <<>>
    /\ committed = {}
    /\ claimed = <<>>
    /\ firstExec = 0
    /\ lastAdmission = NoAdmission
    /\ crashes = 0
    /\ resumeCand = {}
    /\ edits = 0
    /\ faults = failed
    /\ last_rowid = [c \in Conns |-> 0]
    /\ calls = [k \in Callers |-> NoCall]
    /\ shutdown = FALSE
    /\ shutdown_at = NotSignalled
    /\ scan_status = SCAN_IDLE
    /\ scan_task = {}
    /\ scan_req = NoRequest
    /\ move_req = NoRequest
    /\ overlapped = FALSE
    /\ responses = NoResponses
    /\ second = [pc |-> "loop", job |-> NoJob]

\* no function is called on its own
NoProbe == [pc |-> "none"]

StartWith(failed) == Start(InitialFiles, NoNfo, TRUE, failed) /\ probe = NoProbe

Init == StartWith(0)

\* a start after which no filesystem or store operation fails
InitFaultless == StartWith(MaxFaults)

\* the files a scanned show directory can hold, relative to it
RelFiles ==
    {<<"tvshow.nfo">>, <<"TVSHOW.NFO">>, <<".nfo">>, <<"a.mkv">>, <<"x.txt">>,
     <<"poster.jpg">>, <<"cover.jpg">>, <<"S1", "b.MKV">>, <<"S1", "e1.nfo">>,
     <<"S1", "D", "c.mp4">>, <<"S2", "a.mkv">>, <<"S2", "e2.NFO">>, <<"S2", "tvshow.nfo">>}

RECURSIVE CreateAll(_, _)
CreateAll(files, ps) ==
    IF ps = {} THEN files
    ELSE LET p == CHOOSE q \in ps : TRUE IN CreateAll(CreateDirAll(files, p), ps \ {p})

\* a hot library with the show directory s holding the files rels, and a cold
\* library, if there is one, with the show directory t
Layout(rels, cold) ==
    CreateAll({<<"h">>, <<"h", "s">>}, {Join(<<"h", "s">>, r) : r \in rels})
    \cup (IF cold THEN {<<"c">>} \cup SmallTree(<<"c", "t">>) ELSE {})

\* an event of the XML reader
Ev(type, name, text, unescapes) ==
    [type |-> type, name |-> name, text |-> text, unescapes |-> unescapes]

StartEv(name) == Ev("Start", name, <<>>, TRUE)

EndEv(name) == Ev("End", name, <<>>, TRUE)

TextEv(text) == Ev("Text", "", text, TRUE)

\* what a tvshow.nfo can hold, as the events the XML reader gives for it
NfoInputs ==
    {[utf8 |-> TRUE, events |-> e] : e \in
        {<<>>,
         \* <title>E</title>
         <<StartEv("title"), TextEv(<<"E">>), EndEv("title")>>,
         \* <tvshow><TITLE> E </TITLE></tvshow>
         <<StartEv("tvshow"), StartEv("TITLE"), TextEv(<<WS, "E", WS>>), EndEv("TITLE"),
           EndEv("tvshow")>>,
         \* <plot>P</plot><title>E</title>
         <<StartEv("plot"), TextEv(<<"P">>), EndEv("plot"), StartEv("title"),
           TextEv(<<"E">>), EndEv("title")>>,
         \* <title></title><plot>P</plot>
         <<StartEv("title"), EndEv("title"), StartEv("plot"), TextEv(<<"P">>),
           EndEv("plot")>>,
         \* <title/>P
         <<Ev("Empty", "title", <<>>, TRUE), TextEv(<<"P">>)>>,
         \* <title>&bogus;</title><title>F</title>
         <<StartEv("title"), Ev("Text", "", <<"B">>, FALSE), EndEv("title"),
           StartEv("title"), TextEv(<<"F">>), EndEv("title")>>,
         \* <title><![CDATA[E]]></title>
         <<StartEv("title"), Ev("CData", "", <<"E">>, TRUE), EndEv("title")>>,
         \* malformed before the title
         <<Ev("Err", "", <<>>, TRUE), StartEv("title"), TextEv(<<"E">>), EndEv("title")>>,
         \* malformed after the title
         <<StartEv("title"), TextEv(<<"E">>), EndEv("title"), Ev("Err", "", <<>>, TRUE)>>}}
    \cup {[utf8 |-> FALSE, events |-> <<StartEv("title"), TextEv(<<"E">>), EndEv("title")>>]}

\* the disks the scanner can find: at most MaxFiles files in the show
\* directory, and a content for its tvshow.nfo if it has one
ScanDisks ==
    {[files |-> Layout(rels, cold), content |-> content] :
        rels \in {r \in SUBSET RelFiles : Cardinality(r) <= MaxFiles},
        cold \in BOOLEAN, content \in NfoInputs}

\* an empty index before the first scan
InitScanner ==
    \E disk \in {d \in ScanDisks :
                    <<"h", "s", "tvshow.nfo">> \notin d.files => d.content = NoNfo} :
       Start(disk.files, disk.content, FALSE, 0) /\ probe = NoProbe

(* --------------------------- environment ------------------------------ *)
\* a filesystem or store operation fails
Fault ==
    /\ faults < MaxFaults
    /\ faults' = faults + 1

NoFault == faults' = faults

\* an alternative edit that the worker sees in the job it is executing
update_config_in_flight ==
    /\ edits < MaxConfigEdits
    /\ \E payload \in ConfigPayloads :
          /\ validate_config(fs, payload)
          /\ payload # config
          /\ config' = payload
          /\ config_snapshot' = IF config_snapshot = NoConfig THEN NoConfig ELSE payload
          /\ edits' = edits + 1
    /\ UNCHANGED sideVars
    /\ UNCHANGED <<shows, jobs, fs, pc, job, source_at_start, copied, walk, err, admitted,
                   committed, claimed, firstExec, lastAdmission, crashes, resumeCand,
                   faults>>

\* PUT /api/config: a payload that fails validation is rejected and changes
\* nothing
update_config ==
    /\ edits < MaxConfigEdits
    /\ \E payload \in ConfigPayloads :
          /\ validate_config(fs, payload)
          /\ payload # config
          /\ config' = payload
          /\ edits' = edits + 1
    /\ UNCHANGED sideVars
    /\ UNCHANGED <<shows, jobs, fs, workerVars, admitted, committed, claimed, firstExec,
                   lastAdmission, crashes, resumeCand, faults>>

(* ---------------------- admission (create_move_job) ------------------- *)
\* Utc::now().timestamp(), counted from the first admission: the clock never
\* shows less than a timestamp it has given before
Timestamps(jbs) ==
    IF jbs = <<>> THEN {0}
    ELSE {t \in 0..MaxClock : \A id \in 1..Len(jbs) : \A c \in jbs[id].created_at : c <= t}

UnwrapOr(opt, default) == IF opt = {} THEN default ELSE CHOOSE v \in opt : TRUE

Max(a, b) == IF a >= b THEN a ELSE b

Min(a, b) == IF a <= b THEN a ELSE b

\* ids the caller can pass: the rows of the shows table and one id it lacks
ShowIdInputs == 1..3

\* "hot", " Cold" and "hots"
TargetInputs == { <<"h", "o", "t">>, <<WS, "C", "o", "l", "d">>, <<"h", "o", "t", "s">> }

NoRow ==
    [show_id |-> 0, source_path |-> <<>>, destination_path |-> <<>>, status |-> "",
     progress_bytes |-> {}, total_bytes |-> {}, speed_bytes_per_sec |-> {},
     eta_seconds |-> {}, error_message |-> {}, created_at |-> {}]

Rejected(reason) ==
    [result |-> reason, row |-> NoRow, target |-> "", hot_root |-> <<>>, cold_root |-> <<>>]

\* an alternative row that takes the show's size as it is
new_job_row_raw_size(show_id, show, destination_path, t) ==
    [show_id |-> show_id, source_path |-> show.path,
     destination_path |-> destination_path, status |-> "queued",
     progress_bytes |-> {0}, total_bytes |-> show.size_bytes,
     speed_bytes_per_sec |-> {0}, eta_seconds |-> {0}, error_message |-> {},
     created_at |-> {t}]

\* the row create_move_job's INSERT binds: total_bytes is
\* show.size_bytes.unwrap_or(0).max(0), created_at is now
new_job_row(show_id, show, destination_path, t) ==
    [show_id |-> show_id, source_path |-> show.path,
     destination_path |-> destination_path, status |-> STATUS_QUEUED,
     progress_bytes |-> {0}, total_bytes |-> {Max(UnwrapOr(show.size_bytes, 0), 0)},
     speed_bytes_per_sec |-> {0}, eta_seconds |-> {0}, error_message |-> {},
     created_at |-> {t}]

\* an alternative admission that does not compare the current tier with the target
admit_any_tier(cfg, shws, show_id, target, t, db_ok) ==
    LET nt == normalize_target(target) IN
    IF nt = {} THEN Rejected("InvalidTarget")
    ELSE IF ~db_ok THEN Rejected("Database")
    ELSE IF show_id \notin DOMAIN shws THEN Rejected("ShowNotFound")
    ELSE IF trimmed_root(cfg.hot_root) = {} THEN Rejected("MissingRoot")
    ELSE IF trimmed_root(cfg.cold_root) = {} THEN Rejected("MissingRoot")
    ELSE
      LET normalized_target == CHOOSE x \in nt : TRUE
          show == shws[show_id]
          hot_root == CHOOSE r \in trimmed_root(cfg.hot_root) : TRUE
          cold_root == CHOOSE r \in trimmed_root(cfg.cold_root) : TRUE
          detected == detect_location(show.path, hot_root, cold_root)
      IN
      IF detected = {} THEN Rejected("PathMismatch")
      ELSE
        LET current == CHOOSE d \in detected : TRUE
            destination_root == IF normalized_target = HOT THEN hot_root ELSE cold_root
            relative == StripPrefix(show.path, current.root)
        IN [result |-> "Ok",
            row |-> new_job_row(show_id, show, Join(destination_root, relative), t),
            target |-> normalized_target,
            hot_root |-> hot_root,
            cold_root |-> cold_root]

\* create_move_job up to its INSERT: the error it returns, or the row it
\* inserts with the target and roots it computed it from.  db_ok: the store
\* answers the show lookup and the insert.
admit(cfg, shws, show_id, target, t, db_ok) ==
    LET nt == normalize_target(target) IN
    IF nt = {} THEN Rejected("InvalidTarget")
    ELSE IF ~db_ok THEN Rejected("Database")
    ELSE IF show_id \notin DOMAIN shws THEN Rejected("ShowNotFound")
    ELSE IF trimmed_root(cfg.hot_root) = {} THEN Rejected("MissingRoot")
    ELSE IF trimmed_root(cfg.cold_root) = {} THEN Rejected("MissingRoot")
    ELSE
      LET normalized_target == CHOOSE x \in nt : TRUE
          show == shws[show_id]
          hot_root == CHOOSE r \in trimmed_root(cfg.hot_root) : TRUE
          cold_root == CHOOSE r \in trimmed_root(cfg.cold_root) : TRUE
          detected == detect_location(show.path, hot_root, cold_root)
      IN
      IF detected = {} THEN Rejected("PathMismatch")
      ELSE
        LET current == CHOOSE d \in detected : TRUE
            destination_root == IF normalized_target = HOT THEN hot_root ELSE cold_root
            relative == StripPrefix(show.path, current.root)
        IN
        IF current.location = normalized_target THEN Rejected("AlreadyInLocation")
        ELSE [result |-> "Ok",
              row |-> new_job_row(show_id, show, Join(destination_root, relative), t),
              target |-> normalized_target,
              hot_root |-> hot_root,
              cold_root |-> cold_root]

\* create_move_job called with any input.  The clock is read only once every
\* check has passed.  recorded: the call and its result are kept in
\* lastAdmission (a rejected call that is not recorded changes nothing at all).
Admission(recorded) ==
    \E show_id \in ShowIdInputs, target \in TargetInputs, db_ok \in BOOLEAN :
       /\ IF admit(config, shows, show_id, target, 0, db_ok).result # "Ok"
          THEN /\ recorded
               /\ lastAdmission' =
                     [show_id |-> show_id, target |-> target,
                      result |-> admit(config, shows, show_id, target, 0, db_ok).result]
               /\ UNCHANGED <<jobs, admitted>>
          ELSE /\ Len(jobs) < MaxJobs
               /\ \E timestamp \in Timestamps(jobs) :
                     LET a == admit(config, shows, show_id, target, timestamp, db_ok) IN
                     /\ jobs' = Append(jobs, a.row)
                     /\ admitted' = Append(admitted, [target |-> a.target,
                                                      hot_root |-> a.hot_root,
                                                      cold_root |-> a.cold_root])
               /\ lastAdmission' = IF recorded
                                   THEN [show_id |-> show_id, target |-> target,
                                         result |-> "Ok"]
                                   ELSE lastAdmission
       /\ UNCHANGED sideVars
       /\ UNCHANGED <<shows, fs, config, workerVars, committed, claimed, firstExec,
                      crashes, resumeCand, edits, faults>>

create_move_job == Admission(FALSE)

create_move_job_recorded == Admission(TRUE)

(* ------------------------ worker (start_worker) ----------------------- *)
JobIds(jbs) == 1..Len(jbs)

\* the JobRow of a jobs row
JobRow(jbs, id) ==
    [id |-> id, show_id |-> jbs[id].show_id, source_path |-> jbs[id].source_path,
     destination_path |-> jbs[id].destination_path, status |-> jbs[id].status,
     progress_bytes |-> jbs[id].progress_bytes, total_bytes |-> jbs[id].total_bytes]

\* ORDER BY CASE status WHEN 'running' THEN 0 ELSE 1 END, created_at
OrderBefore(a, b) ==
    LET ra == IF a.status = STATUS_RUNNING THEN 0 ELSE 1
        rb == IF b.status = STATUS_RUNNING THEN 0 ELSE 1
    IN \/ ra < rb
       \/ ra = rb /\ UnwrapOr(a.created_at, 0) < UnwrapOr(b.created_at, 0)

\* an alternative selection whose status filter also lets failed rows through
fetch_retrying_failed(jbs) ==
    LET eligible == {id \in JobIds(jbs) :
                        jbs[id].status \in {STATUS_QUEUED, STATUS_RUNNING, STATUS_FAILED}} IN
    {id \in eligible : \A other \in eligible : ~OrderBefore(jbs[other], jbs[id])}

\* an alternative selection that returns nothing once a job has failed
fetch_halting_after_failure(jbs) ==
    LET eligible == {id \in JobIds(jbs) :
                        /\ jbs[id].status \in {STATUS_QUEUED, STATUS_RUNNING}
                        /\ \A other \in JobIds(jbs) : jbs[other].status # STATUS_FAILED} IN
    {id \in eligible : \A other \in eligible : ~OrderBefore(jbs[other], jbs[id])}

\* an alternative selection that ignores the ORDER BY
fetch_any_eligible(jbs) ==
    {id \in JobIds(jbs) : jbs[id].status \in {STATUS_QUEUED, STATUS_RUNNING}}

\* an alternative selection that orders by created_at alone
fetch_oldest_first(jbs) ==
    LET eligible == {id \in JobIds(jbs) :
                        jbs[id].status \in {STATUS_QUEUED, STATUS_RUNNING}} IN
    {id \in eligible :
        \A other \in eligible :
            UnwrapOr(jbs[id].created_at, 0) <= UnwrapOr(jbs[other].created_at, 0)}

\* an alternative selection that passes over the rows already marked running
fetch_queued_only(jbs) ==
    LET eligible == {id \in JobIds(jbs) : jbs[id].status = STATUS_QUEUED} IN
    {id \in eligible : \A other \in eligible : ~OrderBefore(jbs[other], jbs[id])}

\* fetch_next_job's SELECT ... LIMIT 1: the rows it can return (any of the
\* first rows in the order; none when the set is empty)
fetch_candidates(jbs) ==
    LET eligible == {id \in JobIds(jbs) :
                        jbs[id].status \in {STATUS_QUEUED, STATUS_RUNNING}} IN
    {id \in eligible : \A other \in eligible : ~OrderBefore(jbs[other], jbs[id])}

\* an alternative claim that leaves the status as it is
mark_running_noop(jbs, id) == jbs

\* fetch_next_job's UPDATE jobs SET status = 'running', error_message = NULL
mark_running(jbs, id) ==
    [jbs EXCEPT ![id].status = STATUS_RUNNING, ![id].error_message = {}]

\* the worker's locals once it holds no job
Idle ==
    /\ job' = NoJob
    /\ config_snapshot' = NoConfig
    /\ source_at_start' = {}
    /\ copied' = 0
    /\ walk' = <<>>
    /\ err' = ""

\* execute_job is entered with the job and a fresh config snapshot
BeginExecute(row) ==
    /\ job' = row
    /\ config_snapshot' = config
    /\ source_at_start' = {p \in fs : StartsWith(p, row.source_path)}
    /\ firstExec' = IF firstExec = 0 THEN row.id ELSE firstExec
    /\ pc' = "clean"

\* top of the loop: fetch_next_job's SELECT.  A running row is executed as it
\* is; a queued row goes on to the UPDATE.
FetchSelect ==
    /\ pc = "loop"
    /\ ~shutdown
    /\ \/ \* Ok(None): there is no eligible row
          /\ fetch_candidates(jobs) = {}
          /\ NoFault
          /\ pc' = "wait"
          /\ UNCHANGED <<job, config_snapshot, source_at_start, firstExec, err>>
       \/ \* Err(err): the query fails
          /\ Fault
          /\ err' = "Database"
          /\ pc' = "wait"
          /\ UNCHANGED <<job, config_snapshot, source_at_start, firstExec>>
       \/ /\ NoFault
          /\ err' = err
          /\ \E id \in fetch_candidates(jobs) :
                IF jobs[id].status # STATUS_RUNNING
                THEN /\ job' = JobRow(jobs, id)
                     /\ pc' = "claim"
                     /\ UNCHANGED <<config_snapshot, source_at_start, firstExec>>
                ELSE BeginExecute(JobRow(jobs, id))
    /\ UNCHANGED sideVars
    /\ UNCHANGED <<shows, jobs, fs, copied, walk, admitted, committed, claimed,
                   envVars>>

\* an alternative claim whose UPDATE takes effect although it reports an error
FetchClaimHalfDone ==
    /\ pc = "claim"
    /\ \/ /\ NoFault
          /\ jobs' = mark_running(jobs, job.id)
          /\ claimed' = Append(claimed, job.id)
          /\ BeginExecute([job EXCEPT !.status = STATUS_RUNNING])
          /\ UNCHANGED <<copied, walk, err>>
       \/ /\ Fault
          /\ jobs' = mark_running(jobs, job.id)
          /\ pc' = "wait"
          /\ job' = NoJob
          /\ err' = "Database"
          /\ UNCHANGED <<claimed, firstExec, config_snapshot, source_at_start,
                         copied, walk>>
    /\ UNCHANGED sideVars
    /\ UNCHANGED <<shows, fs, admitted, committed, envVars>>

\* fetch_next_job's UPDATE of a queued row, then the config snapshot
FetchClaim ==
    /\ pc = "claim"
    /\ \/ /\ NoFault
          /\ jobs' = mark_running(jobs, job.id)
          /\ claimed' = Append(claimed, job.id)
          /\ BeginExecute([job EXCEPT !.status = STATUS_RUNNING])
          /\ UNCHANGED <<copied, walk, err>>
       \/ \* the UPDATE fails: fetch_next_job returns Err(err)
          /\ Fault
          /\ pc' = "wait"
          /\ job' = NoJob
          /\ err' = "Database"
          /\ UNCHANGED <<jobs, claimed, firstExec, config_snapshot, source_at_start,
                         copied, walk>>
    /\ UNCHANGED sideVars
    /\ UNCHANGED <<shows, fs, admitted, committed, envVars>>

\* execute_job: remove_dir_all(destination); a failure is only logged
CleanDestination ==
    /\ pc = "clean"
    /\ \/ /\ fs' = RemoveDirAll(fs, job.destination_path)
          /\ NoFault
       \/ /\ job.destination_path \in fs
          /\ fs' = fs
          /\ Fault
    /\ pc' = "mkdest"
    /\ UNCHANGED sideVars
    /\ UNCHANGED <<shows, jobs, job, config_snapshot, source_at_start, copied, walk, err, admitted,
                   committed, claimed, firstExec, envVars>>

\* an alternative start of the counter that forgets what an earlier run stored
copied_from_zero(row) == 0

\* let mut copied = job.progress_bytes.unwrap_or(0)
copied_at_start(row) == UnwrapOr(row.progress_bytes, 0)

\* execute_job: create_dir_all(destination), copied = job.progress_bytes, and
\* the first entry of the walk, the source directory itself
CreateDestination ==
    /\ pc = "mkdest"
    /\ \/ \* create_dir_all fails
          /\ Fault
          /\ err' = "Io"
          /\ pc' = "failed"
          /\ UNCHANGED <<fs, copied, walk>>
       \/ /\ NoFault
          /\ fs' = CreateDirAll(fs, job.destination_path)
          /\ copied' = copied_at_start(job)
          /\ IF job.source_path \in fs'
             THEN /\ walk' = Tail(WalkDir(fs', job.source_path))
                  /\ pc' = IF walk' = <<>> THEN "finalize" ELSE "walk"
                  /\ err' = err
             ELSE \* the walk yields an error for a source that is not there
                  /\ walk' = <<>>
                  /\ err' = "Io"
                  /\ pc' = "failed"
    /\ UNCHANGED sideVars
    /\ UNCHANGED <<shows, jobs, job, config_snapshot, source_at_start, admitted, committed, claimed,
                   firstExec, envVars>>

\* update_job_progress
update_job_progress(jbs, id, progress, speed, eta) ==
    [jbs EXCEPT ![id].progress_bytes = {progress},
                ![id].speed_bytes_per_sec = {speed},
                ![id].eta_seconds = {eta}]

\* start.elapsed() in whole seconds when a file has been copied
ElapsedInputs == {0, 1}

\* let speed = if elapsed > 0.0 { copied / elapsed } else { 0 }
speed_of(copied_bytes, elapsed) == IF elapsed > 0 THEN copied_bytes \div elapsed ELSE 0

\* let eta = if speed > 0 { (remaining / speed.max(1)).round() } else { 0 },
\* with remaining = total_bytes.saturating_sub(progress)
eta_of(total_bytes, progress, speed) ==
    LET remaining == Max(total_bytes - progress, 0) IN
    IF speed > 0 THEN (2 * remaining + Max(speed, 1)) \div (2 * Max(speed, 1)) ELSE 0

\* an alternative progress that is not clamped to total_bytes
progress_unclamped(copied_bytes, total_bytes) == copied_bytes

\* let progress = copied.min(total_bytes)
progress_of(copied_bytes, total_bytes) == Min(copied_bytes, total_bytes)

\* execute_job: one entry of the walk
WalkStep ==
    /\ pc = "walk"
    /\ walk # <<>>
    /\ LET path == Head(walk)
           relative == StripPrefix(path, job.source_path)
           target_path == Join(job.destination_path, relative)
           total_bytes == Max(UnwrapOr(job.total_bytes, 0), 0)
           next == IF Tail(walk) = <<>> THEN "finalize" ELSE "walk"
       IN
       \/ \* the walk, create_dir_all or the copy fails
          /\ Fault
          /\ err' = "Io"
          /\ pc' = "failed"
          /\ UNCHANGED <<fs, jobs, copied, walk>>
       \/ /\ ~IsFile(path)
          /\ NoFault
          /\ fs' = CreateDirAll(fs, target_path)
          /\ walk' = Tail(walk)
          /\ pc' = next
          /\ UNCHANGED <<jobs, copied, err>>
       \/ /\ IsFile(path)
          /\ fs' = CreateDirAll(fs, target_path)
          /\ copied' = copied + FileSize(path[Len(path)])
          /\ \/ /\ NoFault
                /\ \E elapsed \in ElapsedInputs :
                      LET progress == progress_of(copied', total_bytes)
                          speed == speed_of(copied', elapsed)
                      IN jobs' = update_job_progress(jobs, job.id, progress, speed,
                                                     eta_of(total_bytes, progress, speed))
                /\ walk' = Tail(walk)
                /\ pc' = next
                /\ err' = err
             \/ \* update_job_progress fails
                /\ Fault
                /\ err' = "Database"
                /\ pc' = "failed"
                /\ UNCHANGED <<jobs, walk>>
    /\ UNCHANGED sideVars
    /\ UNCHANGED <<shows, job, config_snapshot, source_at_start, admitted, committed, claimed, firstExec,
                   envVars>>

\* UPDATE shows SET path = ?, location = ? WHERE id = ?
update_show(shws, show_id, destination, new_location) ==
    IF show_id \in DOMAIN shws
    THEN [shws EXCEPT ![show_id].path = destination, ![show_id].location = {new_location}]
    ELSE shws

\* UPDATE jobs SET status = 'success', error_message = NULL, progress_bytes = ?,
\*   eta_seconds = 0, speed_bytes_per_sec = 0
mark_success(jbs, id, final_progress) ==
    [jbs EXCEPT ![id].status = STATUS_SUCCESS, ![id].error_message = {},
                ![id].progress_bytes = {final_progress},
                ![id].eta_seconds = {0}, ![id].speed_bytes_per_sec = {0}]

\* shows.path is UNIQUE: the UPDATE fails when another row holds the path
PathTaken(shws, show_id, destination) ==
    \E other \in DOMAIN shws : other # show_id /\ shws[other].path = destination

\* an alternative finalization whose shows update outlives a failed transaction
finalize_without_rollback(shws, jbs, row, new_location, final_progress, tx_ok) ==
    IF tx_ok /\ ~PathTaken(shws, row.show_id, row.destination_path)
    THEN [ok |-> TRUE,
          shows |-> update_show(shws, row.show_id, row.destination_path, new_location),
          jobs |-> mark_success(jbs, row.id, final_progress)]
    ELSE [ok |-> FALSE,
          shows |-> IF PathTaken(shws, row.show_id, row.destination_path) THEN shws
                    ELSE update_show(shws, row.show_id, row.destination_path, new_location),
          jobs |-> jbs]

\* the finalization transaction: both updates, or neither when a statement
\* or the commit fails (tx_ok: the store raises no error of its own)
finalize_transaction(shws, jbs, row, new_location, final_progress, tx_ok) ==
    IF tx_ok /\ ~PathTaken(shws, row.show_id, row.destination_path)
    THEN [ok |-> TRUE,
          shows |-> update_show(shws, row.show_id, row.destination_path, new_location),
          jobs |-> mark_success(jbs, row.id, final_progress)]
    ELSE [ok |-> FALSE, shows |-> shws, jobs |-> jbs]

\* execute_job after the walk: resolve the new location, then the transaction
Finalize ==
    /\ pc = "finalize"
    /\ LET total_bytes == Max(UnwrapOr(job.total_bytes, 0), 0)
           final_progress == progress_of(copied, total_bytes)
           new_location == resolve_location_from_path(job.destination_path, config_snapshot)
       IN
       IF ~new_location.ok
       THEN /\ err' = new_location.v
            /\ pc' = "failed"
            /\ UNCHANGED <<shows, jobs, committed, faults>>
       ELSE \E tx_ok \in BOOLEAN :
               LET tx == finalize_transaction(shows, jobs, job, new_location.v,
                                              final_progress, tx_ok) IN
               /\ IF tx_ok THEN NoFault ELSE Fault
               /\ shows' = tx.shows
               /\ jobs' = tx.jobs
               /\ committed' = IF tx.ok THEN committed \cup {job.id} ELSE committed
               /\ err' = IF tx.ok THEN err ELSE "Database"
               /\ pc' = IF tx.ok THEN "rmsrc" ELSE "failed"
    /\ UNCHANGED sideVars
    /\ UNCHANGED <<fs, job, config_snapshot, source_at_start, copied, walk, admitted, claimed, firstExec,
                   envVars>>

\* an alternative end of execute_job that fails the job when the source cannot
\* be removed
RemoveSourceOrFail ==
    /\ pc = "rmsrc"
    /\ \/ /\ fs' = RemoveDirAll(fs, job.source_path)
          /\ jobs' = jobs
          /\ NoFault
       \/ /\ fs' = fs
          /\ jobs' = [jobs EXCEPT ![job.id].status = STATUS_FAILED,
                                  ![job.id].error_message = {"Io"}]
          /\ Fault
    /\ pc' = "wait"
    /\ Idle
    /\ UNCHANGED sideVars
    /\ UNCHANGED <<shows, admitted, committed, claimed, firstExec, envVars>>

\* execute_job after the commit: remove_dir_all(source); a failure is only
\* logged.  Then the worker's 200 ms wait.
RemoveSource ==
    /\ pc = "rmsrc"
    /\ \/ /\ fs' = RemoveDirAll(fs, job.source_path)
          /\ NoFault
       \/ /\ fs' = fs
          /\ Fault
    /\ pc' = "wait"
    /\ Idle
    /\ UNCHANGED sideVars
    /\ UNCHANGED <<shows, jobs, admitted, committed, claimed, firstExec, envVars>>

\* an alternative update that stores the status without the message
finalize_job_status_no_message(jbs, id, status, error_message, progress_override) ==
    [jbs EXCEPT ![id].status = status,
                ![id].eta_seconds = {0}, ![id].speed_bytes_per_sec = {0}]

\* UPDATE jobs SET status = ?, error_message = ?,
\*   progress_bytes = COALESCE(?, progress_bytes), eta_seconds = 0,
\*   speed_bytes_per_sec = 0
finalize_job_status(jbs, id, status, error_message, progress_override) ==
    [jbs EXCEPT ![id].status = status,
                ![id].error_message = error_message,
                ![id].progress_bytes =
                    IF progress_override = {} THEN @ ELSE progress_override,
                ![id].eta_seconds = {0}, ![id].speed_bytes_per_sec = {0}]

\* start_worker on Err from execute_job: finalize_job_status(failed); a failure
\* of that update is only logged
MarkFailed ==
    /\ pc = "failed"
    /\ \/ /\ jobs' = finalize_job_status(jobs, job.id, STATUS_FAILED, {err}, {})
          /\ NoFault
       \/ /\ jobs' = jobs
          /\ Fault
    /\ pc' = "wait"
    /\ Idle
    /\ UNCHANGED sideVars
    /\ UNCHANGED <<shows, fs, admitted, committed, claimed, firstExec, envVars>>

\* wait_for_shutdown: the sleep elapses and the loop starts over, or the
\* change of the shutdown channel is seen and the loop is left
Wait ==
    /\ pc = "wait"
    /\ \E changed \in {shutdown, FALSE} : pc' = IF changed THEN "exited" ELSE "loop"
    /\ err' = ""
    /\ UNCHANGED sideVars
    /\ UNCHANGED <<shows, jobs, fs, job, config_snapshot, source_at_start, copied, walk, admitted,
                   committed, claimed, firstExec, envVars, faults>>

\* the process stops abruptly and is started again: the tables, the disk and
\* the saved configuration stay, the worker starts at the top of its loop
Crash ==
    /\ crashes < MaxCrashes
    /\ crashes' = crashes + 1
    /\ resumeCand' = {id \in JobIds(jobs) : jobs[id].status = STATUS_RUNNING}
    /\ firstExec' = 0
    /\ pc' = "loop"
    /\ Idle
    /\ shutdown' = FALSE
    /\ shutdown_at' = NotSignalled
    /\ scan_status' = SCAN_IDLE
    /\ scan_task' = {}
    /\ scan_req' = NoRequest
    /\ move_req' = NoRequest
    /\ overlapped' = FALSE
    /\ UNCHANGED <<shows, jobs, fs, config, admitted, committed, claimed, lastAdmission,
                   edits, faults, last_rowid, calls, auxVars>>

Next ==
    \/ update_config
    \/ create_move_job
    \/ FetchSelect
    \/ FetchClaim
    \/ CleanDestination
    \/ CreateDestination
    \/ WalkStep
    \/ Finalize
    \/ RemoveSource
    \/ MarkFailed
    \/ Wait
    \/ Crash

Spec == Init /\ [][Next]_vars

\* the admission calls with their results on record, against the worker and
\* configuration edits
NextAdmission ==
    \/ create_move_job_recorded
    \/ update_config
    \/ FetchSelect
    \/ FetchClaim
    \/ CleanDestination
    \/ CreateDestination
    \/ WalkStep
    \/ Finalize
    \/ RemoveSource
    \/ MarkFailed
    \/ Wait

SpecAdmission == Init /\ [][NextAdmission]_vars

\* a step of the worker task
Worker ==
    \/ FetchSelect
    \/ FetchClaim
    \/ CleanDestination
    \/ CreateDestination
    \/ WalkStep
    \/ Finalize
    \/ RemoveSource
    \/ MarkFailed
    \/ Wait

\* the worker task is scheduled again and again: the runtime polls it, its
\* waits elapse, and every filesystem and store call returns
SpecLive == Spec /\ WF_vars(Worker)

(* ------------- create_move_job, query by query, on the pool ------------ *)
\* get_job: SELECT ... FROM jobs WHERE id = ?
get_job(jbs, id) ==
    IF id \in JobIds(jbs)
    THEN {[id |-> id, show_id |-> jbs[id].show_id, status |-> jbs[id].status,
           source_path |-> jbs[id].source_path,
           destination_path |-> jbs[id].destination_path]}
    ELSE {}

\* create_move_job up to and including its INSERT, which runs on a connection
\* the pool hands out
call_insert(k) ==
    /\ calls[k].pc = "idle"
    /\ Len(jobs) < MaxJobs
    /\ \E show_id \in ShowIdInputs, target \in TargetInputs, conn \in Conns,
          timestamp \in Timestamps(jobs) :
          LET a == admit(config, shows, show_id, target, timestamp, TRUE) IN
          /\ a.result = "Ok"
          /\ jobs' = Append(jobs, a.row)
          /\ admitted' = Append(admitted, [target |-> a.target, hot_root |-> a.hot_root,
                                           cold_root |-> a.cold_root])
          /\ last_rowid' = [last_rowid EXCEPT ![conn] = Len(jobs')]
          /\ calls' = [calls EXCEPT ![k] =
                          [pc |-> "inserted", show_id |-> show_id, target |-> a.target,
                           root |-> IF a.target = HOT THEN a.hot_root ELSE a.cold_root,
                           inserted |-> Len(jobs'), job_id |-> 0, returned |-> {}]]
    /\ UNCHANGED <<shows, fs, workerVars, committed, claimed, firstExec, envVars, faults,
                   serverVars, auxVars>>

\* SELECT last_insert_rowid(), on a connection the pool hands out
call_rowid(k) ==
    /\ calls[k].pc = "inserted"
    /\ \E conn \in Conns :
          calls' = [calls EXCEPT ![k].pc = "rowid", ![k].job_id = last_rowid[conn]]
    /\ UNCHANGED <<shows, jobs, fs, workerVars, admitted, committed, claimed, firstExec,
                   envVars, faults, last_rowid, serverVars, auxVars>>

\* get_job(db, job_id): the record create_move_job returns, or RowNotFound
call_get(k) ==
    /\ calls[k].pc = "rowid"
    /\ calls' = [calls EXCEPT
                    ![k].returned = get_job(jobs, calls[k].job_id),
                    ![k].pc = IF get_job(jobs, calls[k].job_id) = {} THEN "failed"
                              ELSE "done"]
    /\ UNCHANGED <<shows, jobs, fs, workerVars, admitted, committed, claimed, firstExec,
                   envVars, faults, last_rowid, serverVars, auxVars>>

\* shutdown_signal: ctrl_c arrives and true is sent on the watch channel
shutdown_signal ==
    /\ ~shutdown
    /\ shutdown' = TRUE
    /\ shutdown_at' = [pc |-> pc, walk |-> walk]
    /\ UNCHANGED <<scan_status, scan_task, scan_req, move_req, overlapped, last_rowid,
                   calls, auxVars>>
    /\ UNCHANGED <<shows, jobs, fs, workerVars, admitted, committed, claimed, firstExec,
                   envVars, faults>>

\* an alternative check that also stops the worker between two entries of a walk
ExitBetweenEntries ==
    /\ pc \in {"loop", "walk"}
    /\ shutdown
    /\ pc' = "exited"
    /\ UNCHANGED sideVars
    /\ UNCHANGED <<shows, jobs, fs, job, config_snapshot, source_at_start, copied, walk,
                   err, admitted, committed, claimed, firstExec, envVars, faults>>

\* start_worker's check at the top of its loop: break
ExitLoop ==
    /\ pc = "loop"
    /\ shutdown
    /\ pc' = "exited"
    /\ UNCHANGED sideVars
    /\ UNCHANGED <<shows, jobs, fs, job, config_snapshot, source_at_start, copied, walk,
                   err, admitted, committed, claimed, firstExec, envVars, faults>>

\* admissions and the worker against a shutdown signal
NextShutdown ==
    \/ create_move_job
    \/ shutdown_signal
    \/ ExitLoop
    \/ Worker

SpecShutdown == Init /\ [][NextShutdown]_vars /\ WF_vars(Worker \/ ExitLoop)

\* config_is_ready: both roots are non-blank
config_is_ready(cfg) ==
    trimmed_root(cfg.hot_root) # {} /\ trimmed_root(cfg.cold_root) # {}

\* an alternative activity check that counts running jobs only
has_running_jobs(jbs) ==
    \E id \in JobIds(jbs) : jbs[id].status = STATUS_RUNNING

\* has_active_jobs: SELECT COUNT(*) FROM jobs WHERE status IN (queued, running)
has_active_jobs(jbs) ==
    \E id \in JobIds(jbs) : jbs[id].status \in {STATUS_QUEUED, STATUS_RUNNING}

\* a reading of the clock that has not advanced since the last upsert
LastScan(shws) ==
    IF shws = <<>> THEN 0
    ELSE CHOOSE t \in {UnwrapOr(shws[i].last_scan, 0) : i \in DOMAIN shws} :
            \A i \in DOMAIN shws : UnwrapOr(shws[i].last_scan, 0) <= t

\* no handler is in flight and no job is queued or running
Quiet(jbs, sreq, mreq) ==
    ~has_active_jobs(jbs) /\ sreq.pc = "idle" /\ mreq.pc = "idle"

\* trigger_scan up to has_active_jobs: 400 when the configuration is incomplete,
\* 409 when a job is active, 500 when the store fails
TriggerScanCheck(recorded) ==
    /\ scan_req.pc = "idle"
    /\ \E db_ok \in BOOLEAN :
          IF ~config_is_ready(config) \/ ~db_ok \/ has_active_jobs(jobs)
          THEN /\ recorded
               /\ responses' =
                     [responses EXCEPT !.scan =
                         IF ~config_is_ready(config) THEN "BAD_REQUEST"
                         ELSE IF ~db_ok THEN "INTERNAL_SERVER_ERROR"
                         ELSE "CONFLICT: move jobs are active"]
               /\ UNCHANGED <<scan_req, overlapped>>
          ELSE /\ scan_req' = [pc |-> "checked", config_snapshot |-> config]
               /\ overlapped' = (overlapped \/ move_req.pc = "checked")
               /\ UNCHANGED responses
    /\ UNCHANGED <<shutdown, shutdown_at, scan_status, scan_task, move_req, last_rowid,
                   calls, second, nfo, scan_run, probe, triggers>>
    /\ UNCHANGED <<shows, jobs, fs, workerVars, admitted, committed, claimed, firstExec,
                   envVars, faults>>

\* trigger_scan from its look at scan_status: 409 when a scan runs, else the
\* state becomes Running and the scan task is spawned
trigger_scan_start ==
    /\ scan_req.pc = "checked"
    /\ scan_req' = NoRequest
    /\ IF scan_status = SCAN_RUNNING
       THEN UNCHANGED <<scan_status, scan_task>>
       ELSE /\ scan_status' = SCAN_RUNNING
            /\ scan_task' = {scan_req.config_snapshot}
    /\ UNCHANGED <<shutdown, shutdown_at, move_req, overlapped, last_rowid, calls,
                   auxVars>>
    /\ UNCHANGED <<shows, jobs, fs, workerVars, admitted, committed, claimed, firstExec,
                   envVars, faults>>

\* the spawned task, taken as one step: run_scan upserts the candidates it
\* finds, all of them or those before the upsert that fails, then the state
\* becomes Idle
scan_task_run ==
    /\ scan_task # {}
    /\ \E cfg \in scan_task :
          LET candidates == Candidates(fs, nfo, cfg) IN
          \E n \in 0..Len(candidates) :
             shows' = upsert_all(shows, SubSeq(candidates, 1, n), LastScan(shows))
    /\ scan_status' = SCAN_IDLE
    /\ scan_task' = {}
    /\ overlapped' = (overlapped /\ ~Quiet(jobs, scan_req, move_req))
    /\ UNCHANGED <<shutdown, shutdown_at, scan_req, move_req, last_rowid, calls, auxVars>>
    /\ UNCHANGED <<jobs, fs, workerVars, admitted, committed, claimed, firstExec,
                   envVars, faults>>

\* create_move_job_handler's look at scan_status: 409 when a scan runs
MoveCheck(recorded) ==
    /\ move_req.pc = "idle"
    /\ IF scan_status = SCAN_RUNNING
       THEN /\ recorded
            /\ responses' = [responses EXCEPT !.move = "CONFLICT: a scan is running"]
            /\ UNCHANGED <<move_req, overlapped>>
       ELSE /\ move_req' = [pc |-> "checked", config_snapshot |-> NoConfig]
            /\ overlapped' = (overlapped \/ scan_req.pc = "checked")
            /\ UNCHANGED responses
    /\ UNCHANGED <<shutdown, shutdown_at, scan_status, scan_task, scan_req, last_rowid,
                   calls, second, nfo, scan_run, probe, triggers>>
    /\ UNCHANGED <<shows, jobs, fs, workerVars, admitted, committed, claimed, firstExec,
                   envVars, faults>>

\* create_move_job_handler from its config snapshot: 400 when the configuration
\* is incomplete, else create_move_job
move_admit ==
    /\ move_req.pc = "checked"
    /\ move_req' = NoRequest
    /\ \E show_id \in ShowIdInputs, target \in TargetInputs, db_ok \in BOOLEAN :
          IF \/ ~config_is_ready(config)
             \/ admit(config, shows, show_id, target, 0, db_ok).result # "Ok"
          THEN UNCHANGED <<jobs, admitted>>
          ELSE /\ Len(jobs) < MaxJobs
               /\ \E timestamp \in Timestamps(jobs) :
                     LET a == admit(config, shows, show_id, target, timestamp, db_ok) IN
                     /\ jobs' = Append(jobs, a.row)
                     /\ admitted' = Append(admitted, [target |-> a.target,
                                                      hot_root |-> a.hot_root,
                                                      cold_root |-> a.cold_root])
    /\ UNCHANGED <<shutdown, shutdown_at, scan_status, scan_task, scan_req, overlapped,
                   last_rowid, calls, auxVars>>
    /\ UNCHANGED <<shows, fs, workerVars, committed, claimed, firstExec, envVars, faults>>

trigger_scan_check == TriggerScanCheck(FALSE)

move_check == MoveCheck(FALSE)

trigger_scan_check_recorded == TriggerScanCheck(TRUE)

move_check_recorded == MoveCheck(TRUE)

\* scan triggers and move admissions against the scan task and the worker
NextScan ==
    \/ trigger_scan_check
    \/ trigger_scan_start
    \/ scan_task_run
    \/ move_check
    \/ move_admit
    \/ Worker

SpecScan == Init /\ [][NextScan]_vars

\* the same, with the rejections of the two checks on record
NextScanRecorded ==
    \/ trigger_scan_check_recorded
    \/ trigger_scan_start
    \/ scan_task_run
    \/ move_check_recorded
    \/ move_admit
    \/ Worker

SpecScanRecorded == InitFaultless /\ [][NextScanRecorded]_vars

(* ----------------------- deduplicate_show_paths ----------------------- *)
\* the paths the rows of a shows table created without UNIQUE can hold
DuplicablePaths == {<<"h", "s">>, <<"h", "t">>, <<"c", "s">>}

\* the contents of such a table: rows with distinct ids, any paths
TableInputs ==
    UNION {{{[id |-> i, path |-> f[i]] : i \in ids} : f \in [ids -> DuplicablePaths]} :
              ids \in SUBSET (1..MaxRows)}

\* SELECT path FROM shows GROUP BY path HAVING COUNT(*) > 1
duplicate_paths(rows) ==
    {p \in {r.path : r \in rows} : Cardinality({r \in rows : r.path = p}) > 1}

\* an alternative inner query, SELECT MIN(id) FROM shows WHERE path = ?1
min_id(rows, path) ==
    CHOOSE i \in {r.id : r \in {q \in rows : q.path = path}} :
        \A r \in {q \in rows : q.path = path} : i <= r.id

\* SELECT MAX(id) FROM shows WHERE path = ?1
max_id(rows, path) ==
    CHOOSE i \in {r.id : r \in {q \in rows : q.path = path}} :
        \A r \in {q \in rows : q.path = path} : r.id <= i

\* the rows DELETE FROM shows WHERE path = ?1 AND id NOT IN (...) selects
to_delete(rows, path) == {r \in rows : r.path = path /\ r.id # max_id(rows, path)}

\* PRAGMA foreign_keys = ON with jobs.show_id REFERENCES shows(id): the DELETE
\* is refused as a whole when a job references one of its rows
delete_refused(rows, path, referenced) ==
    \E r \in to_delete(rows, path) : r.id \in referenced

\* a shows table, the show ids the jobs table references, and no call yet
InitDeduplicate ==
    /\ Start(InitialFiles, NoNfo, TRUE, MaxFaults)
    /\ config = CfgNormal
    /\ \E rows \in TableInputs, referenced \in SUBSET (1..MaxRows) :
          /\ referenced \subseteq {r.id : r \in rows}
          /\ probe = [pc |-> "called", before |-> rows, rows |-> rows,
                      referenced |-> referenced, duplicates |-> {}, result |-> ""]

\* deduplicate_show_paths: the query for the duplicated paths
deduplicate_select ==
    /\ probe.pc = "called"
    /\ probe' = [probe EXCEPT !.pc = "loop", !.duplicates = duplicate_paths(probe.rows)]
    /\ UNCHANGED <<last_rowid, calls, serverVars, responses, second, nfo, scan_run, triggers>>
    /\ UNCHANGED <<shows, jobs, fs, workerVars, admitted, committed, claimed, firstExec,
                   envVars, faults>>

\* deduplicate_show_paths: the DELETE for one of the duplicated paths; its
\* error ends the function
deduplicate_delete ==
    /\ probe.pc = "loop"
    /\ \E path \in probe.duplicates :
          probe' =
             IF delete_refused(probe.rows, path, probe.referenced)
             THEN [probe EXCEPT !.pc = "returned", !.result = "Err"]
             ELSE [probe EXCEPT !.rows = @ \ to_delete(probe.rows, path),
                                !.duplicates = @ \ {path}]
    /\ UNCHANGED <<last_rowid, calls, serverVars, responses, second, nfo, scan_run, triggers>>
    /\ UNCHANGED <<shows, jobs, fs, workerVars, admitted, committed, claimed, firstExec,
                   envVars, faults>>

\* deduplicate_show_paths: Ok(()) after the loop
deduplicate_return ==
    /\ probe.pc = "loop"
    /\ probe.duplicates = {}
    /\ probe' = [probe EXCEPT !.pc = "returned", !.result = "Ok"]
    /\ UNCHANGED <<last_rowid, calls, serverVars, responses, second, nfo, scan_run, triggers>>
    /\ UNCHANGED <<shows, jobs, fs, workerVars, admitted, committed, claimed, firstExec,
                   envVars, faults>>

NextDeduplicate ==
    \/ deduplicate_select
    \/ deduplicate_delete
    \/ deduplicate_return

SpecDeduplicate == InitDeduplicate /\ [][NextDeduplicate]_vars

(* --------------------- concurrent scan triggers ----------------------- *)
\* trigger_scan of handler k up to has_active_jobs: the configuration snapshot,
\* 400 when it is incomplete, 409 when a job is active, 500 when the store fails
trigger_scan_enter(k) ==
    /\ triggers.req[k].pc = "idle"
    /\ \E db_ok \in BOOLEAN :
          triggers' =
             [triggers EXCEPT !.req[k] =
                 IF ~config_is_ready(config)
                 THEN [pc |-> "idle", config_snapshot |-> NoConfig,
                       response |-> "BAD_REQUEST"]
                 ELSE IF ~db_ok
                 THEN [pc |-> "idle", config_snapshot |-> NoConfig,
                       response |-> "INTERNAL_SERVER_ERROR"]
                 ELSE IF has_active_jobs(jobs)
                 THEN [pc |-> "idle", config_snapshot |-> NoConfig,
                       response |-> "CONFLICT: move jobs are active"]
                 ELSE [pc |-> "entered", config_snapshot |-> config, response |-> ""]]
    /\ UNCHANGED <<last_rowid, calls, serverVars, responses, second, nfo, scan_run, probe>>
    /\ UNCHANGED <<shows, jobs, fs, workerVars, admitted, committed, claimed, firstExec,
                   envVars, faults>>

\* trigger_scan of handler k under the read lock of scan_status: 409 when the
\* state is Running; the lock is released at the end of the block
trigger_scan_read(k) ==
    /\ triggers.req[k].pc = "entered"
    /\ triggers' =
          [triggers EXCEPT !.req[k] =
              IF scan_status = SCAN_RUNNING
              THEN [pc |-> "idle", config_snapshot |-> NoConfig,
                    response |-> "CONFLICT: scan_already_running"]
              ELSE [@ EXCEPT !.pc = "passed"]]
    /\ UNCHANGED <<last_rowid, calls, serverVars, responses, second, nfo, scan_run, probe>>
    /\ UNCHANGED <<shows, jobs, fs, workerVars, admitted, committed, claimed, firstExec,
                   envVars, faults>>

\* trigger_scan of handler k under the write lock: the state becomes Running,
\* the scan task is spawned with the snapshot, the answer is "started"
trigger_scan_write(k) ==
    /\ triggers.req[k].pc = "passed"
    /\ Len(triggers.tasks) < MaxSpawned
    /\ scan_status' = SCAN_RUNNING
    /\ triggers' =
          [triggers EXCEPT
              !.req[k] = [pc |-> "idle", config_snapshot |-> NoConfig,
                          response |-> "started"],
              !.tasks = Append(@, triggers.req[k].config_snapshot)]
    /\ UNCHANGED <<shutdown, shutdown_at, scan_task, scan_req, move_req, overlapped,
                   last_rowid, calls, responses, second, nfo, scan_run, probe>>
    /\ UNCHANGED <<shows, jobs, fs, workerVars, admitted, committed, claimed, firstExec,
                   envVars, faults>>

\* the i-th spawned task: run_scan with its snapshot, all upserts or those
\* before the one that fails, then the state becomes Idle
spawned_scan(i) ==
    /\ i \in DOMAIN triggers.tasks
    /\ LET candidates == Candidates(fs, nfo, triggers.tasks[i]) IN
       \E n \in 0..Len(candidates) :
          shows' = upsert_all(shows, SubSeq(candidates, 1, n), LastScan(shows))
    /\ scan_status' = SCAN_IDLE
    /\ triggers' =
          [triggers EXCEPT !.tasks =
              SubSeq(@, 1, i - 1) \o SubSeq(@, i + 1, Len(@))]
    /\ UNCHANGED <<shutdown, shutdown_at, scan_task, scan_req, move_req, overlapped,
                   last_rowid, calls, responses, second, nfo, scan_run, probe>>
    /\ UNCHANGED <<jobs, fs, workerVars, admitted, committed, claimed, firstExec,
                   envVars, faults>>

\* trigger_scan handlers in flight together, and the tasks they spawn
NextTriggers ==
    \/ \E k \in TriggerIds : trigger_scan_enter(k)
    \/ \E k \in TriggerIds : trigger_scan_read(k)
    \/ \E k \in TriggerIds : trigger_scan_write(k)
    \/ \E i \in 1..MaxSpawned : spawned_scan(i)

SpecTriggers == InitFaultless /\ [][NextTriggers]_vars

\* fetch_next_job's SELECT in a second worker instance
second_fetch_select ==
    /\ second.pc = "loop"
    /\ \/ /\ fetch_candidates(jobs) = {}
          /\ NoFault
          /\ second' = [second EXCEPT !.pc = "wait"]
       \/ /\ Fault
          /\ second' = [second EXCEPT !.pc = "wait"]
       \/ /\ NoFault
          /\ \E id \in fetch_candidates(jobs) :
                second' = [pc  |-> IF jobs[id].status # STATUS_RUNNING THEN "claim"
                                   ELSE "execute",
                           job |-> JobRow(jobs, id)]
    /\ UNCHANGED <<last_rowid, calls, serverVars, responses, nfo, scan_run, probe, triggers>>
    /\ UNCHANGED <<shows, jobs, fs, workerVars, admitted, committed, claimed, firstExec,
                   envVars>>

\* fetch_next_job's UPDATE in a second worker instance, which then enters
\* execute_job
second_fetch_claim ==
    /\ second.pc = "claim"
    /\ \/ /\ NoFault
          /\ jobs' = mark_running(jobs, second.job.id)
          /\ claimed' = Append(claimed, second.job.id)
          /\ second' = [pc  |-> "execute",
                        job |-> [second.job EXCEPT !.status = STATUS_RUNNING]]
       \/ /\ Fault
          /\ second' = [pc |-> "wait", job |-> NoJob]
          /\ UNCHANGED <<jobs, claimed>>
    /\ UNCHANGED <<last_rowid, calls, serverVars, responses, nfo, scan_run, probe, triggers>>
    /\ UNCHANGED <<shows, fs, workerVars, admitted, committed, firstExec, envVars>>

\* wait_for_shutdown elapses in a second worker instance
second_wait ==
    /\ second.pc = "wait"
    /\ second' = [second EXCEPT !.pc = "loop"]
    /\ UNCHANGED <<last_rowid, calls, serverVars, responses, nfo, scan_run, probe, triggers>>
    /\ UNCHANGED <<shows, jobs, fs, workerVars, admitted, committed, claimed, firstExec,
                   envVars, faults>>

\* two worker instances on one store, the second one followed until it enters
\* execute_job
NextTwoWorkers ==
    \/ create_move_job
    \/ Worker
    \/ second_fetch_select
    \/ second_fetch_claim
    \/ second_wait

SpecTwoWorkers == Init /\ [][NextTwoWorkers]_vars

\* the clock at an upsert: not before the newest last_scan
ScanTimes(shws) == LastScan(shws)..MaxClock

\* run_scan is called with the configuration cfg, as the nth call on record:
\* its summary, roots and library paths
RunScanBegin(cfg, nth) ==
    /\ scan_run.pc = "idle"
    /\ scan_run' =
          [pc |-> "library", config |-> cfg,
           libraries |-> resolve_library_paths(trimmed_root(cfg.hot_root),
                                               trimmed_root(cfg.cold_root)),
           queue |-> <<>>, summary |-> NoSummary, result |-> "", runs |-> nth,
           clean |-> TRUE,
           repeat |-> (scan_run.result = "Ok" /\ scan_run.clean /\ scan_run.config = cfg
                       /\ scan_run.disk = fs /\ scan_run.content = nfo
                       /\ scan_run.index_at_end = shows),
           existing_id |-> {}, upserted |-> <<>>, index_at_start |-> shows,
           index_at_end |-> <<>>, disk |-> fs, content |-> nfo,
           changes |-> scan_run.changes]
    /\ UNCHANGED <<last_rowid, calls, responses, second, nfo, probe, triggers>>
    /\ UNCHANGED <<shows, jobs, fs, workerVars, admitted, committed, claimed, firstExec,
                   envVars, faults>>

\* run_scan called on its own, with the configuration as it is
run_scan_begin ==
    /\ scan_run.runs < MaxScans
    /\ RunScanBegin(config, scan_run.runs + 1)
    /\ UNCHANGED serverVars

\* run_scan returns to its caller
run_scan_return ==
    /\ scan_run.pc = "done"
    /\ scan_run' = [scan_run EXCEPT !.pc = "idle"]
    /\ UNCHANGED <<last_rowid, calls, serverVars, responses, second, nfo, probe, triggers>>
    /\ UNCHANGED <<shows, jobs, fs, workerVars, admitted, committed, claimed, firstExec,
                   envVars, faults>>

\* run_scan's loop over library_paths: a path that is no directory is skipped,
\* a library whose read_dir fails is only logged, otherwise its candidates are
\* collected; after the last library the run returns Ok(summary)
run_scan_library ==
    /\ scan_run.pc = "library"
    /\ IF scan_run.libraries = <<>>
       THEN /\ scan_run' = [scan_run EXCEPT !.pc = "done", !.result = "Ok",
                                            !.index_at_end = shows]
            /\ NoFault
       ELSE LET library_path == Head(scan_run.libraries)
                counted == [scan_run.summary EXCEPT !.scanned_libraries = @ + 1]
                found == scan_library(fs, nfo, library_path,
                                      trimmed_root(scan_run.config.hot_root),
                                      trimmed_root(scan_run.config.cold_root))
            IN
            IF library_path \notin fs \/ IsFile(library_path)
            THEN /\ scan_run' = [scan_run EXCEPT !.libraries = Tail(@)]
                 /\ NoFault
            ELSE \/ /\ NoFault
                    /\ scan_run' = [scan_run EXCEPT
                                       !.libraries = Tail(@), !.summary = counted,
                                       !.queue = found,
                                       !.pc = IF found = <<>> THEN "library" ELSE "upsert"]
                 \/ /\ Fault
                    /\ scan_run' = [scan_run EXCEPT
                                       !.libraries = Tail(@), !.summary = counted,
                                       !.clean = FALSE]
    /\ UNCHANGED <<last_rowid, calls, serverVars, responses, second, nfo, probe, triggers>>
    /\ UNCHANGED <<shows, jobs, fs, workerVars, admitted, committed, claimed, firstExec,
                   envVars>>

\* an alternative in which a failed run takes back what it had upserted
rollback_run(shws, index_at_start) == index_at_start

\* the shows table after upsert_show's error left run_scan through `?`: no
\* transaction spans the run, so the table is as the statements before left it
after_failed_upsert(shws, index_at_start) == shws

\* run_scan's loop over the candidates of a library, upsert_show's first
\* statement: the SELECT of the id of the row with the candidate's path; its
\* error ends the run
run_scan_select ==
    /\ scan_run.pc = "upsert"
    /\ \/ /\ NoFault
          /\ shows' = shows
          /\ scan_run' = [scan_run EXCEPT
                             !.pc = "insert",
                             !.summary.shows_processed = @ + 1,
                             !.existing_id =
                                 select_existing_id(shows, Head(scan_run.queue).path)]
       \/ /\ Fault
          /\ shows' = after_failed_upsert(shows, scan_run.index_at_start)
          /\ scan_run' = [scan_run EXCEPT !.pc = "done", !.result = "Err",
                                          !.summary.shows_processed = @ + 1,
                                          !.clean = FALSE, !.index_at_end = shows']
    /\ UNCHANGED <<last_rowid, calls, serverVars, responses, second, nfo, probe, triggers>>
    /\ UNCHANGED <<jobs, fs, workerVars, admitted, committed, claimed, firstExec, envVars>>

\* upsert_show's second statement, INSERT ... ON CONFLICT(path) DO UPDATE, and
\* the count of its result as inserted or updated; its error ends the run
run_scan_insert ==
    /\ scan_run.pc = "insert"
    /\ LET show == Head(scan_run.queue) IN
       \/ /\ NoFault
          /\ \E timestamp \in ScanTimes(shows) :
                /\ shows' = upsert_show(shows, show, timestamp)
                /\ scan_run' =
                      [scan_run EXCEPT
                         !.queue = Tail(@),
                         !.pc = IF Tail(scan_run.queue) = <<>> THEN "library" ELSE "upsert",
                         !.summary.inserted =
                             IF UpsertResult(scan_run.existing_id) = "Inserted"
                             THEN @ + 1 ELSE @,
                         !.summary.updated =
                             IF UpsertResult(scan_run.existing_id) = "Updated"
                             THEN @ + 1 ELSE @,
                         !.existing_id = {},
                         !.upserted = Append(@, BoundRow(show, timestamp))]
       \/ /\ Fault
          /\ shows' = after_failed_upsert(shows, scan_run.index_at_start)
          /\ scan_run' = [scan_run EXCEPT !.pc = "done", !.result = "Err",
                                          !.existing_id = {}, !.clean = FALSE,
                                          !.index_at_end = shows']
    /\ UNCHANGED <<last_rowid, calls, serverVars, responses, second, nfo, probe, triggers>>
    /\ UNCHANGED <<jobs, fs, workerVars, admitted, committed, claimed, firstExec, envVars>>

\* the task trigger_scan spawned calls run_scan with its configuration snapshot
scan_task_begin ==
    /\ scan_task # {}
    /\ scan_run.runs < MaxScanTasks
    /\ \E cfg \in scan_task : RunScanBegin(cfg, scan_run.runs + 1)
    /\ UNCHANGED serverVars

\* the spawned task after run_scan: the state becomes Idle
scan_task_end ==
    /\ scan_task # {}
    /\ scan_run.pc = "done"
    /\ scan_run' = [NoScanRun EXCEPT !.runs = scan_run.runs]
    /\ scan_status' = SCAN_IDLE
    /\ scan_task' = {}
    /\ overlapped' = (overlapped /\ ~Quiet(jobs, scan_req, move_req))
    /\ UNCHANGED <<shutdown, shutdown_at, scan_req, move_req, last_rowid, calls,
                   responses, second, nfo, probe, triggers>>
    /\ UNCHANGED <<shows, jobs, fs, workerVars, admitted, committed, claimed, firstExec,
                   envVars, faults>>

\* between two runs a file appears in the show directory or vanishes from it
disk_change ==
    /\ scan_run.pc = "idle"
    /\ scan_run.runs >= 1
    /\ scan_run.changes < MaxDiskChanges
    /\ \E r \in RelFiles :
          LET p == Join(<<"h", "s">>, r) IN
          fs' = IF p \in fs THEN fs \ {p} ELSE CreateDirAll(fs, p)
    /\ scan_run' = [scan_run EXCEPT !.changes = @ + 1]
    /\ UNCHANGED <<last_rowid, calls, serverVars, responses, second, nfo, probe, triggers>>
    /\ UNCHANGED <<shows, jobs, workerVars, admitted, committed, claimed, firstExec,
                   envVars, faults>>

\* the scanner alone, on any of the disks
NextScanner ==
    \/ run_scan_begin
    \/ run_scan_library
    \/ run_scan_select
    \/ run_scan_insert
    \/ run_scan_return
    \/ disk_change

SpecScanner == InitScanner /\ [][NextScanner]_vars

\* scan triggers and move admissions next to the worker, with the scan task
\* taken statement by statement
NextScanMoves ==
    \/ trigger_scan_check
    \/ trigger_scan_start
    \/ scan_task_begin
    \/ run_scan_library
    \/ run_scan_select
    \/ run_scan_insert
    \/ scan_task_end
    \/ move_check
    \/ move_admit
    \/ Worker

SpecScanMoves == InitFaultless /\ [][NextScanMoves]_vars

\* concurrent create_move_job calls against the worker's fetch
NextPool ==
    \/ \E k \in Callers : call_insert(k)
    \/ \E k \in Callers : call_rowid(k)
    \/ \E k \in Callers : call_get(k)
    \/ FetchSelect
    \/ FetchClaim
    \/ Wait

SpecPool == Init /\ [][NextPool]_vars

(* ----------------------- unchanged configuration ---------------------- *)
\* a start with both roots configured, the cold one apart from the hot one
InitNormal == Init /\ config = CfgNormal

\* admissions, the worker and abrupt stops; the configuration is never edited
NextFixedConfig ==
    \/ create_move_job
    \/ Worker
    \/ Crash

SpecFixedConfig == InitNormal /\ [][NextFixedConfig]_vars

(* ------------------------ a show with a thumbnail --------------------- *)
\* a disk with one show in the hot library, a file and an image in it
FilesWithThumbnail ==
    {<<"h">>, <<"c">>, <<"h", "s">>, <<"h", "s", "f1">>, <<"h", "s", "poster.jpg">>}

\* a faultless start on that disk, the roots configured apart
InitWithThumbnail ==
    /\ Start(FilesWithThumbnail, NoNfo, TRUE, MaxFaults)
    /\ probe = NoProbe
    /\ config = CfgNormal

\* move and scan requests, the scan task and the worker on that disk
SpecThumbnail == InitWithThumbnail /\ [][NextScanMoves]_vars

(* ------------------ location, by scanner and by admission ------------- *)
\* show paths to locate: under a root, under a root that lies in the other
\* one, beside the roots, a root itself
PathInputs ==
    {<<"h">>, <<"h", "s">>, <<"c", "t">>, <<"h", "c", "s">>, <<"c", "h", "s">>,
     <<"x", "s">>, <<"s">>}

\* values of hot_root and cold_root as the configuration file gives them
RootInputs == {<<"h">>, <<WS, "c">>, <<"h", "c">>, <<"c", "h", WS>>, <<WS>>, <<>>}

\* the shows table with one row, of the path to locate
OneShowAt(path) ==
    <<[title |-> {<<file_name(path)>>}, path |-> path, location |-> {},
       size_bytes |-> {1}, season_count |-> {0}, episode_count |-> {0},
       thumbnail_path |-> {}, source |-> {"fs_scan"}, last_scan |-> {0}]>>

\* a path and a configuration, before scanner and admission have located it
InitLocation ==
    /\ Start(InitialFiles, NoNfo, TRUE, 0)
    /\ \E path \in PathInputs, hot \in RootInputs, cold \in RootInputs :
          probe = [pc |-> "located", path |-> path,
                   config |-> [hot_root |-> hot, cold_root |-> cold],
                   scanner |-> {}, scanned |-> FALSE, admission |-> "", admitted |-> FALSE]

\* build_show_candidate's location for the path, from run_scan's sanitized roots
locate_by_scanner ==
    /\ probe.pc = "located"
    /\ ~probe.scanned
    /\ probe' = [probe EXCEPT
                    !.scanned = TRUE,
                    !.scanner = determine_location(probe.path,
                                                   trimmed_root(probe.config.hot_root),
                                                   trimmed_root(probe.config.cold_root))]
    /\ UNCHANGED <<last_rowid, calls, serverVars, responses, second, nfo, scan_run, triggers>>
    /\ UNCHANGED <<shows, jobs, fs, workerVars, admitted, committed, claimed, firstExec,
                   envVars, faults>>

\* create_move_job for the show at the path: its error, or the tier it moves
\* the show away from
locate_by_admission ==
    /\ probe.pc = "located"
    /\ ~probe.admitted
    /\ \E target \in {<<"h", "o", "t">>, <<"c", "o", "l", "d">>} :
          LET a == admit(probe.config, OneShowAt(probe.path), 1, target, 0, TRUE) IN
          /\ a.result # "AlreadyInLocation"
          /\ probe' = [probe EXCEPT
                          !.admitted = TRUE,
                          !.admission = IF a.result # "Ok" THEN a.result
                                        ELSE IF normalize_target(target) = {HOT}
                                             THEN COLD ELSE HOT]
    /\ UNCHANGED <<last_rowid, calls, serverVars, responses, second, nfo, scan_run, triggers>>
    /\ UNCHANGED <<shows, jobs, fs, workerVars, admitted, committed, claimed, firstExec,
                   envVars, faults>>

NextLocation ==
    \/ locate_by_scanner
    \/ locate_by_admission

SpecLocation == InitLocation /\ [][NextLocation]_vars

(* ============================ properties ============================== *)
\* vocabulary of the properties
Status(id) == jobs[id].status

Progress(id) == UnwrapOr(jobs[id].progress_bytes, -1)

Total(id) == UnwrapOr(jobs[id].total_bytes, -1)

CreatedAt(id) == UnwrapOr(jobs[id].created_at, -1)

Running == {id \in JobIds(jobs) : Status(id) = STATUS_RUNNING}

Queued == {id \in JobIds(jobs) : Status(id) = STATUS_QUEUED}

\* the worker is inside execute_job, or handling the error it returned
Executing == pc \in {"clean", "mkdest", "walk", "finalize", "rmsrc", "failed"}

\* job id turns success in this step
BecomesSuccess(id) ==
    /\ jobs'[id].status = STATUS_SUCCESS
    /\ id \in JobIds(jobs) => Status(id) # STATUS_SUCCESS

(* ------------------------------- C1 ----------------------------------- *)
StatusChanges ==
    {<<STATUS_QUEUED, STATUS_RUNNING>>, <<STATUS_RUNNING, STATUS_SUCCESS>>,
     <<STATUS_RUNNING, STATUS_FAILED>>}

\* C1: a job's stored status only ever changes queued->running,
\* running->success or running->failed (so success and failed are never
\* left), whatever admissions, worker steps, failures and restarts happen; a
\* row is never removed.
C1_StatusLifecycle ==
    [][/\ Len(jobs') >= Len(jobs)
       /\ \A id \in JobIds(jobs) :
             jobs'[id].status # Status(id)
                => <<Status(id), jobs'[id].status>> \in StatusChanges]_vars

\* one job ended failed and another success, with a restart on the way
C1_Witness ==
    /\ crashes > 0
    /\ \E a, b \in JobIds(jobs) : Status(a) = STATUS_FAILED /\ Status(b) = STATUS_SUCCESS

(* ------------------------------- C2 ----------------------------------- *)
\* C2: in every reachable state every job row has
\* 0 <= progress_bytes <= total_bytes.
C2_ProgressWithinTotal ==
    \A id \in JobIds(jobs) :
       /\ jobs[id].progress_bytes # {}
       /\ jobs[id].total_bytes # {}
       /\ 0 <= Progress(id)
       /\ Progress(id) <= Total(id)

\* a resumed job has counted more bytes than its total and its stored
\* progress is the total
C2_Witness ==
    /\ crashes > 0
    /\ pc \in {"walk", "finalize"}
    /\ copied > Total(job.id)
    /\ Total(job.id) > 0
    /\ Progress(job.id) = Total(job.id)

(* ------------------------------- C3 ----------------------------------- *)
\* root of a tier among the roots an admission used
AdmissionRoot(id, tier) ==
    IF tier = HOT THEN admitted[id].hot_root ELSE admitted[id].cold_root

\* the worker's snapshot has the roots the job's admission used
SnapshotAsAdmitted(id) ==
    /\ trimmed_root(config_snapshot.hot_root) = {admitted[id].hot_root}
    /\ trimmed_root(config_snapshot.cold_root) = {admitted[id].cold_root}

\* C3 as claimed: right after a job's finalization the show's path is the
\* job's destination_path, starts with the root of the tier requested at
\* admission, and the show's location is the requested tier.
C3_LocationIsRequestedTier ==
    pc = "rmsrc" =>
       LET show == shows[job.show_id] IN
       /\ show.path = jobs[job.id].destination_path
       /\ StartsWith(show.path, AdmissionRoot(job.id, admitted[job.id].target))
       /\ show.location = {admitted[job.id].target}

\* C3 as amended: right after a job's finalization the show's path is the
\* job's destination_path and starts with the root the requested tier had at
\* admission; the show's location is the tier the worker's configuration
\* snapshot gives destination_path, the hot root tested first; it is the
\* requested tier when the snapshot has the roots of the admission, unless
\* cold was requested and destination_path also lies under the hot root.
C3_LocationFromSnapshot ==
    pc = "rmsrc" =>
       LET show == shows[job.show_id]
           target == admitted[job.id].target
           snapHot == trimmed_root(config_snapshot.hot_root)
           snapCold == trimmed_root(config_snapshot.cold_root)
           underHot == \E r \in snapHot : StartsWith(show.path, r)
           underCold == \E r \in snapCold : StartsWith(show.path, r)
       IN
       /\ show.path = jobs[job.id].destination_path
       /\ StartsWith(show.path, AdmissionRoot(job.id, target))
       /\ show.location = IF underHot THEN {HOT} ELSE {COLD}
       /\ underHot \/ underCold
       /\ (/\ SnapshotAsAdmitted(job.id)
           /\ ~(target = COLD /\ StartsWith(show.path, admitted[job.id].hot_root)))
             => show.location = {target}

\* a job admitted for cold under one configuration is finalized under another
\* and the show is recorded as hot
C3_Witness ==
    /\ pc = "rmsrc"
    /\ admitted[job.id].target = COLD
    /\ ~SnapshotAsAdmitted(job.id)
    /\ shows[job.show_id].location = {HOT}
    /\ shows[job.show_id].path = <<"c", "s">>

(* ------------------------------- C4 ----------------------------------- *)
\* C4: finalization is atomic.  In every reachable state, restarts at any
\* point included, a job is success exactly when its finalization transaction
\* committed; the step that makes a job success is the step of its commit and
\* leaves the show with the job's destination_path and a location; a step
\* that changes a show row makes the job of that show success and changes no
\* other show row.
C4_FinalizationAtomic ==
    /\ [](\A id \in JobIds(jobs) : Status(id) = STATUS_SUCCESS <=> id \in committed)
    /\ [][/\ \A id \in JobIds(jobs') :
                /\ BecomesSuccess(id) <=> id \in committed' \ committed
                /\ BecomesSuccess(id) =>
                      /\ shows'[jobs'[id].show_id].path = jobs'[id].destination_path
                      /\ shows'[jobs'[id].show_id].location # {}
          /\ shows' # shows =>
                \E id \in JobIds(jobs') :
                   /\ BecomesSuccess(id)
                   /\ \A n \in 1..Len(shows) :
                         n # jobs'[id].show_id => shows'[n] = shows[n]]_vars

\* a job that was interrupted and resumed has committed, and its show now
\* has the destination path, which is not the source path
C4_Witness ==
    /\ crashes > 0
    /\ \E id \in committed \cap resumeCand :
          /\ Status(id) = STATUS_SUCCESS
          /\ shows[jobs[id].show_id].path = jobs[id].destination_path
          /\ jobs[id].destination_path # jobs[id].source_path

(* ------------------------------- C5 ----------------------------------- *)
\* C5 as claimed: whenever the directory at the source path of the job being
\* executed goes away, the job's stored status is already success and the
\* show's recorded path is already the destination path.
C5_SourceRemovedAfterCommit ==
    [][(/\ Executing
        /\ job.source_path \in fs
        /\ job.source_path \notin fs')
          => /\ Status(job.id) = STATUS_SUCCESS
             /\ shows[job.show_id].path = job.destination_path
             /\ job.id \in committed]_vars

C7_AtMostOneRunning ==
    /\ Cardinality(Running) <= 1
    /\ Executing => Running \subseteq {job.id}
    /\ pc = "claim" => Running = {}

\* after a restart the worker copies the job that was running while another
\* job is queued
C7_Witness ==
    /\ crashes > 0
    /\ pc = "walk"
    /\ Running = {job.id}
    /\ Queued # {}

(* ------------------------------- C8 ----------------------------------- *)
\* C8: in every state in which the worker has begun executing a job (cleanup
\* of the destination, directory creation, copy, finalization, handling of
\* its failure) the job's stored status is not queued, and while it is
\* running its error_message is absent.
C8_RunningBeforeExecution ==
    Executing =>
       /\ Status(job.id) # STATUS_QUEUED
       /\ job.status = STATUS_RUNNING
       /\ Status(job.id) = STATUS_RUNNING => jobs[job.id].error_message = {}

\* the worker is about to clean the destination of the job it has just claimed
C8_Witness ==
    /\ pc = "clean"
    /\ claimed # <<>>
    /\ claimed[Len(claimed)] = job.id
    /\ Status(job.id) = STATUS_RUNNING

(* ------------------------------- C9 ----------------------------------- *)
\* the row the worker's SELECT has just returned
Selected == pc = "loop" /\ pc' \in {"claim", "clean"}

AdmissionErrors ==
    {"InvalidTarget", "ShowNotFound", "MissingRoot", "PathMismatch", "AlreadyInLocation"}

\* the tier a request names: "hot" and " Cold" name one, "hots" names none
RequestedTier(target) ==
    IF target = <<"h", "o", "t">> THEN {HOT}
    ELSE IF target = <<WS, "C", "o", "l", "d">> THEN {COLD}
    ELSE {}

\* the configured root of a tier, none when it is blank
TierRoot(tier) == trimmed_root(IF tier = HOT THEN config.hot_root ELSE config.cold_root)

\* the show's recorded path lies under the configured root of the tier
LiesUnder(show_id, tier) ==
    /\ show_id \in DOMAIN shows
    /\ \E root \in TierRoot(tier) : StartsWith(shows[show_id].path, root)

\* the tier admission takes the show to be in: hot when the path lies under
\* the hot root, cold when it lies under the cold root only
DetectedTier(show_id) ==
    IF LiesUnder(show_id, HOT) THEN {HOT}
    ELSE IF LiesUnder(show_id, COLD) THEN {COLD}
    ELSE {}

\* a call of createJob has just returned and its result is on record
Answered == lastAdmission' # lastAdmission

\* a rejected call leaves the tables and the disk as they were; a job row
\* appears only with a call that returned Ok
RejectionChangesNothing ==
    /\ (Answered /\ lastAdmission'.result \in AdmissionErrors)
          => (jobs' = jobs /\ shows' = shows /\ fs' = fs)
    /\ Len(jobs') > Len(jobs) => lastAdmission'.result = "Ok"

\* C10 as claimed: a rejected admission leaves the jobs table, the shows table
\* and the filesystem unchanged, and a request (answered by the store) for
\* the tier under whose root the show's recorded path lies returns
\* AlreadyInLocation.
C10_SameTierRejected ==
    [][/\ RejectionChangesNothing
       /\ (/\ Answered
           /\ lastAdmission'.result # "Database"
           /\ \E tier \in RequestedTier(lastAdmission'.target) :
                 LiesUnder(lastAdmission'.show_id, tier))
             => lastAdmission'.result = "AlreadyInLocation"]_vars

\* C10 as amended: a rejected admission leaves the jobs table, the shows table
\* and the filesystem unchanged, and when both roots are configured a request
\* (answered by the store) for the tier admission detects for the show, hot
\* when its recorded path lies under the hot root and otherwise cold when it
\* lies under the cold root, returns AlreadyInLocation and adds no job row.
C10_DetectedTierRejected ==
    /\ [](\A show_id \in ShowIdInputs, target \in TargetInputs :
             (/\ TierRoot(HOT) # {}
              /\ TierRoot(COLD) # {}
              /\ RequestedTier(target) # {}
              /\ RequestedTier(target) = DetectedTier(show_id))
                => admit(config, shows, show_id, target, 0, TRUE).result
                      = "AlreadyInLocation")
    /\ [][/\ RejectionChangesNothing
          /\ (/\ Answered
              /\ lastAdmission'.result # "Database"
              /\ TierRoot(HOT) # {}
              /\ TierRoot(COLD) # {}
              /\ RequestedTier(lastAdmission'.target) # {}
              /\ RequestedTier(lastAdmission'.target)
                    = DetectedTier(lastAdmission'.show_id))
                => lastAdmission'.result = "AlreadyInLocation"]_vars

\* " Cold" was requested for a show that a finished job has moved under the
\* cold root, and the answer was AlreadyInLocation
C10_Witness ==
    /\ lastAdmission.result = "AlreadyInLocation"
    /\ lastAdmission.target = <<WS, "C", "o", "l", "d">>
    /\ lastAdmission.show_id = 1
    /\ shows[1].path = <<"c", "s">>
    /\ \E id \in JobIds(jobs) : Status(id) = STATUS_SUCCESS /\ jobs[id].show_id = 1

(* ------------------------------- C11 ---------------------------------- *)
\* sizes a show row can hold: unknown, negative, zero, positive
SizeInputs == {{}, {-1}, {0}, {3}}

\* a shows table of one row at the recorded path of show 1 with the size
OneShow(size) == <<[shows[1] EXCEPT !.size_bytes = size]>>

\* C11: a successful admission adds exactly one job row, queued, with
\* progress, speed and eta 0, no error_message, source_path the show's recorded
\* path and total_bytes the show's size (0 when it is unknown or negative),
\* and leaves every existing job row, the shows table and the filesystem as
\* they were.
C11_AdmissionAddsOneQueuedRow ==
    /\ [](\A size \in SizeInputs, target \in TargetInputs :
             LET a == admit(config, OneShow(size), 1, target, 0, TRUE) IN
             a.result = "Ok" =>
                a.row.total_bytes = {IF size \in {{}, {-1}} THEN 0
                                     ELSE CHOOSE v \in size : TRUE})
    /\ [][Len(jobs') # Len(jobs) =>
             LET row == jobs'[Len(jobs')] IN
             /\ Len(jobs') = Len(jobs) + 1
             /\ \A id \in JobIds(jobs) : jobs'[id] = jobs[id]
             /\ shows' = shows
             /\ fs' = fs
             /\ row.status = STATUS_QUEUED
             /\ row.progress_bytes = {0}
             /\ row.speed_bytes_per_sec = {0}
             /\ row.eta_seconds = {0}
             /\ row.error_message = {}
             /\ row.show_id \in DOMAIN shows
             /\ row.source_path = shows[row.show_id].path
             /\ row.total_bytes = shows[row.show_id].size_bytes]_vars

\* a second job has been admitted while the worker copies the first one,
\* whose row holds progress and a speed
C11_Witness ==
    /\ Len(jobs) = 2
    /\ Status(2) = STATUS_QUEUED
    /\ jobs[2].progress_bytes = {0}
    /\ jobs[2].total_bytes # {0}
    /\ pc = "walk"
    /\ job.id = 1
    /\ Progress(1) > 0
    /\ jobs[1].speed_bytes_per_sec # {0}

(* ------------------------------- C12 ---------------------------------- *)
\* C12 as claimed: the record a create_move_job call returns is the row that
\* call inserted: it has the call's show_id, status queued and a destination
\* under the root of the target tier.
C12_ReturnsInsertedRow ==
    \A k \in Callers :
       calls[k].pc = "done" =>
          \A record \in calls[k].returned :
             /\ record.id = calls[k].inserted
             /\ record.show_id = calls[k].show_id
             /\ record.status = STATUS_QUEUED
             /\ StartsWith(record.destination_path, calls[k].root)

(* ------------------------------- C13 ---------------------------------- *)
\* C13 as claimed: every job row created by an admission whose two roots are
\* non-blank has its source_path under one tier root and its destination_path
\* under the other, so that the two paths differ, and destination_path is the
\* destination root joined with the source path relative to the source root.
C13_DestinationUnderOtherRoot ==
    \A id \in JobIds(jobs) :
       LET destination_root == AdmissionRoot(id, admitted[id].target)
           source_root == AdmissionRoot(id, IF admitted[id].target = HOT THEN COLD ELSE HOT)
       IN
       /\ StartsWith(jobs[id].source_path, source_root)
       /\ StartsWith(jobs[id].destination_path, destination_root)
       /\ ~StartsWith(jobs[id].destination_path, source_root)
       /\ jobs[id].destination_path # jobs[id].source_path
       /\ jobs[id].destination_path
             = Join(destination_root, StripPrefix(jobs[id].source_path, source_root))

(* ------------------------------- C14 ---------------------------------- *)
\* execute_job has returned an error of a directory creation, of the walk or
\* of a file copy
CopyFailed == pc = "failed" /\ err = "Io"

\* the source tree is not deleted: what was under the source path when the
\* job began is still there when the job has failed
SourceKept == CopyFailed => source_at_start \subseteq fs

\* the worker's handling of the failure marks the job failed with a message
\* and leaves its progress, the shows table and the disk as they are
MarkedFailed ==
    (CopyFailed /\ pc' = "wait") =>
       /\ jobs'[job.id].status = STATUS_FAILED
       /\ jobs'[job.id].error_message # {}
       /\ jobs'[job.id].progress_bytes = jobs[job.id].progress_bytes
       /\ shows' = shows
       /\ fs' = fs

\* C14 as claimed: when a directory creation, the walk or a file copy of a
\* running job fails, the job ends failed with an error_message and with the
\* progress_bytes stored last, the show row is as it was, and the source tree
\* is not deleted.
C14_CopyFailureFailsJob ==
    /\ []SourceKept
    /\ [][MarkedFailed]_vars
    /\ [][(Executing /\ pc' = "failed") => shows' = shows]_vars

(* ------------------------------- C15 ---------------------------------- *)
\* every entry was copied and the finalization transaction has failed
TxFailed == pc = "failed" /\ err = "Database" /\ walk = <<>>

\* the copy of the source tree under the destination path
CopiedTree ==
    {Join(job.destination_path, StripPrefix(p, job.source_path)) : p \in source_at_start}

\* C15 as claimed: when the finalization transaction fails after all files
\* were copied, the job ends failed, the show row keeps the values it had, the
\* copied destination tree stays on disk and the source tree is not deleted.
C15_TxFailureFailsJob ==
    /\ [](TxFailed => (source_at_start \subseteq fs /\ CopiedTree \subseteq fs))
    /\ [][(pc = "finalize" /\ pc' = "failed") =>
             (shows' = shows /\ jobs' = jobs /\ fs' = fs)]_vars
    /\ [][(TxFailed /\ pc' = "wait") =>
             /\ jobs'[job.id].status = STATUS_FAILED
             /\ jobs'[job.id].error_message # {}
             /\ shows' = shows
             /\ fs' = fs]_vars

(* ------------------------------- C16 ---------------------------------- *)
\* the worker's removal of the source tree has just failed
RemovalFailed == pc = "rmsrc" /\ pc' = "wait" /\ faults' # faults

\* C16: when the removal of the source tree fails after the finalization
\* transaction committed, the job stays success without error_message and the
\* show keeps the destination path and its location: the failed removal
\* changes no row, and a committed job is success without error_message in
\* every state.
C16_RemovalFailureKeepsSuccess ==
    /\ [](\A id \in committed :
             Status(id) = STATUS_SUCCESS /\ jobs[id].error_message = {})
    /\ [][RemovalFailed =>
             /\ jobs' = jobs
             /\ shows' = shows
             /\ fs' = fs
             /\ job.id \in committed
             /\ shows[job.show_id].path = job.destination_path
             /\ shows[job.show_id].location # {}]_vars

\* the removal of the source tree of a committed job has failed: the worker
\* rests, nothing stopped the process, and the source tree is still on disk
\* beside the destination the show now has
C16_Witness ==
    /\ pc = "wait"
    /\ crashes = 0
    /\ faults = 1
    /\ \E id \in committed :
          /\ Status(id) = STATUS_SUCCESS
          /\ jobs[id].source_path # jobs[id].destination_path
          /\ jobs[id].source_path \in fs
          /\ shows[jobs[id].show_id].path = jobs[id].destination_path

(* ------------------------------- C17 ---------------------------------- *)
Terminal(id) == Status(id) \in {STATUS_SUCCESS, STATUS_FAILED}

Claimed(id) == \E n \in 1..Len(claimed) : claimed[n] = id

\* C17: under a fair worker every job that is queued eventually is success or
\* failed, and a job that is queued while another job has failed is still
\* claimed eventually: a failed job does not stop the worker.
C17_QueuedJobsTerminate ==
    /\ \A id \in 1..MaxJobs :
          (id \in JobIds(jobs) /\ Status(id) = STATUS_QUEUED)
             ~> (id \in JobIds(jobs) /\ Terminal(id))
    /\ \A id \in 1..MaxJobs :
          (/\ id \in JobIds(jobs)
           /\ Status(id) = STATUS_QUEUED
           /\ \E other \in JobIds(jobs) : Status(other) = STATUS_FAILED)
             ~> Claimed(id)

\* a job has failed and a job that was claimed after it is success
C17_Witness ==
    /\ Len(claimed) = 2
    /\ Status(claimed[1]) = STATUS_FAILED
    /\ Status(claimed[2]) = STATUS_SUCCESS


(* ---- C18 ---- *)

\* fetch_next_job returned Err: the worker is between the failed fetch and its retry
FetchFailed == pc = "wait" /\ err = "Database"

\* a step in which the fetch's SELECT or the claim's UPDATE fails
FetchFails == pc \in {"loop", "claim"} /\ faults' # faults

\* C18: when fetching or claiming the next job fails with a store error the worker
\* keeps running (it goes to its wait, then fetches again), no job row, show row or
\* file changes in the failing step, a job whose claim update failed is still queued,
\* and every job that is queued at the failure is later claimed and reaches a terminal
\* status
C18_FetchFailureIsRetried ==
    /\ [][FetchFails =>
            /\ pc' = "wait"
            /\ FetchFailed'
            /\ jobs' = jobs /\ shows' = shows /\ fs' = fs
            /\ pc = "claim" => jobs'[job.id].status = STATUS_QUEUED]_vars
    /\ FetchFailed ~> (pc = "loop")
    /\ \A id \in 1..MaxJobs :
         (FetchFailed /\ id \in Queued)
            ~> (id \in JobIds(jobs) /\ Claimed(id) /\ Terminal(id))

\* the fetch has just failed while a job is queued and none is running
C18_Witness == FetchFailed /\ Queued # {} /\ Running = {} /\ crashes = 0


(* ---- C19 ---- *)

\* the shutdown signal was sent while the worker was copying the file it is still
\* copying, and the walk has a further file to yield after it
SignalledWhileCopying ==
    /\ shutdown
    /\ pc = "walk"
    /\ shutdown_at = [pc |-> "walk", walk |-> walk]
    /\ IsFile(Head(walk))
    /\ \E n \in 2..Len(walk) : IsFile(walk[n])

\* C19: if shutdown is signalled while the worker is copying a file of a job that
\* has further files to copy, the worker finishes that file copy, then stops, and the
\* job's stored status is left running
C19_StopsAfterCurrentFile ==
    \A id \in 1..MaxJobs :
       (SignalledWhileCopying /\ job.id = id)
          ~> (pc = "exited" /\ id \in JobIds(jobs) /\ Status(id) = STATUS_RUNNING)


(* ---- C20 ---- *)

\* a job is queued or running in the store
ActiveJobs == Queued \cup Running

ScanRunning == scan_status = SCAN_RUNNING

ScanRejectedForJobs == "CONFLICT: move jobs are active"

MoveRejectedForScan == "CONFLICT: a scan is running"

\* C21: has_active_jobs is true exactly when a job row is queued or running; a
\* scan trigger that observes it true is answered with a conflict, starts no scan
\* and leaves the scan status as it is; a move request that observes a running
\* scan is answered with a conflict and creates no job row
C21_GuardsReject ==
    /\ [](has_active_jobs(jobs) <=> ActiveJobs # {})
    /\ [][scan_req.pc = "idle" /\ ActiveJobs # {} =>
            /\ scan_req' = scan_req
            /\ scan_task' # {} => scan_task' = scan_task
            /\ scan_status' = SCAN_RUNNING => scan_status = SCAN_RUNNING
            /\ responses'.scan \in {responses.scan, ScanRejectedForJobs,
                                    "INTERNAL_SERVER_ERROR"}]_vars
    /\ [][responses'.scan = ScanRejectedForJobs /\ responses.scan # ScanRejectedForJobs =>
            /\ ActiveJobs # {}
            /\ UNCHANGED <<scan_status, scan_task, scan_req, shows, jobs>>]_vars
    /\ [][move_req.pc = "idle" /\ ScanRunning =>
            /\ move_req' = move_req
            /\ Len(jobs') = Len(jobs)
            /\ responses'.move \in {responses.move, MoveRejectedForScan}]_vars
    /\ [][responses'.move = MoveRejectedForScan /\ responses.move # MoveRejectedForScan =>
            /\ ScanRunning
            /\ UNCHANGED <<jobs, move_req, scan_status>>]_vars

\* a scan trigger was rejected for active jobs and a move request for a running scan
C21_Witness ==
    /\ responses.scan = ScanRejectedForJobs
    /\ responses.move = MoveRejectedForScan
    /\ \E id \in JobIds(jobs) : Status(id) = STATUS_SUCCESS


(* ---- C22 ---- *)

\* C22: claiming a job does not exclude a second worker.  While a job is stored as
\* running, fetch_next_job's selection returns a running job to whoever calls it,
\* and a second worker instance enters execute_job only with a job stored as
\* running, which may be the job the first worker is executing
C22_ClaimDoesNotExclude ==
    /\ [](Running # {} =>
            fetch_candidates(jobs) # {} /\ fetch_candidates(jobs) \subseteq Running)
    /\ [](second.pc = "execute" =>
            /\ second.job.id \in JobIds(jobs)
            /\ second.job.status = STATUS_RUNNING)
    /\ [][second.pc = "loop" /\ second'.pc = "execute" =>
            Status(second'.job.id) = STATUS_RUNNING]_vars

\* both workers are executing the same job: the second one selected the job the
\* first one had marked running and is copying
C22_Witness ==
    /\ pc = "walk"
    /\ second.pc = "execute"
    /\ second.job.id = job.id
    /\ Status(job.id) = STATUS_RUNNING
    /\ Len(claimed) = 1


(* ---- C23 ---- *)

\* the tier whose root, in configuration cfg, path lies under (hot tested first)
TierUnder(path, cfg) ==
    IF \E r \in trimmed_root(cfg.hot_root) : StartsWith(path, r) THEN {HOT}
    ELSE IF \E r \in trimmed_root(cfg.cold_root) : StartsWith(path, r) THEN {COLD}
    ELSE {}

\* the row and roots of the newest job are what create_move_job computes from cfg
AdmittedUnder(cfg, shws, jbs, adm) ==
    \E show_id \in ShowIdInputs, target \in TargetInputs, t \in 0..MaxClock :
       LET a == admit(cfg, shws, show_id, target, t, TRUE) IN
       /\ a.result = "Ok"
       /\ jbs[Len(jbs)] = a.row
       /\ adm[Len(jbs)] = [target |-> a.target, hot_root |-> a.hot_root,
                           cold_root |-> a.cold_root]

\* C23: the worker reads the configuration once per execution of a job, when it
\* enters execute_job; the snapshot does not change while the job is executed,
\* whatever edits happen; the location written at finalization is the tier the
\* snapshot gives the destination; a job admitted after an edit has its tier
\* detection and destination_path computed from the configuration as edited
C23_SnapshotPerJob ==
    /\ [][~Executing /\ Executing' => config_snapshot' = config]_vars
    /\ [][Executing /\ Executing' => config_snapshot' = config_snapshot]_vars
    /\ [][pc = "finalize" /\ pc' = "rmsrc" =>
            shows'[job.show_id].location = TierUnder(job.destination_path, config_snapshot)]_vars
    /\ [][Len(jobs') > Len(jobs) => AdmittedUnder(config, shows, jobs', admitted')]_vars

\* the configuration was edited while job 1 was being copied; job 1 has been
\* finalized with the location its snapshot gives, which is not the one the edited
\* configuration gives; job 2 was admitted after the edit, with the edited roots
C23_Witness ==
    /\ pc = "rmsrc"
    /\ job.id = 1
    /\ edits = 1
    /\ crashes = 0
    /\ config # config_snapshot
    /\ shows[job.show_id].location = TierUnder(job.destination_path, config_snapshot)
    /\ shows[job.show_id].location # TierUnder(job.destination_path, config)
    /\ Len(jobs) = 2
    /\ admitted[2].hot_root = Trim(config.hot_root)
    /\ admitted[2].hot_root # admitted[1].hot_root


(* ---- C24 ---- *)

\* no two rows of the shows table have the same path
PathsUnique(shws) ==
    \A i, j \in DOMAIN shws : shws[i].path = shws[j].path => i = j

\* upsert_show's INSERT ... ON CONFLICT has been executed in this step
UpsertStep ==
    /\ scan_run.pc = "insert"
    /\ Len(scan_run'.upserted) = Len(scan_run.upserted) + 1

\* the candidate run_scan is upserting
NextCandidate == Head(scan_run.queue)

\* C24: in every reachable state no two show rows have the same path, whatever
\* the interleaving of the scanner's upserts with the worker's finalizations; a
\* scanner upsert for a path that has a row already adds no row
C24_PathsUnique ==
    /\ [](PathsUnique(shows))
    /\ [][UpsertStep /\ (\E i \in DOMAIN shows : shows[i].path = NextCandidate.path)
            => Len(shows') = Len(shows)]_vars

\* a scan that ran while the worker moved a show: it updated the row of a path
\* it knew and inserted a row for a directory it had not seen, and a move has
\* been finalized
C24_Witness ==
    /\ scan_run.summary.updated >= 1
    /\ scan_run.summary.inserted >= 1
    /\ \E id \in JobIds(jobs) : Status(id) = STATUS_SUCCESS /\ id \in committed


(* ---- C25 ---- *)

\* a row without its last_scan
Derived(row) == [row EXCEPT !.last_scan = {}]

\* the show directories of the libraries of cfg on the disk files: the
\* directories that lie directly in a library directory
ShowDirectories(files, cfg) ==
    {p \in files :
        /\ ~IsFile(p)
        /\ \E r \in trimmed_root(cfg.hot_root) \cup trimmed_root(cfg.cold_root) :
              r \in files /\ StartsWith(p, r) /\ Len(p) = Len(r) + 1}

\* the run in progress is a second one: the run before it returned Ok with no
\* library skipped for an error, and configuration, disk and index are as that
\* run left them; and nothing has failed in this run
SecondRun == scan_run.repeat /\ scan_run.clean

\* C25: a second run of the scanner, with the configuration of the first and no
\* change of the disk or the index in between, inserts nothing, counts one
\* update per show directory discovered, and leaves the rows as they were,
\* ids, paths and derived fields, except for last_scan
C25_SecondScanUpdatesOnly ==
    SecondRun =>
       /\ scan_run.summary.inserted = 0
       /\ Len(shows) = Len(scan_run.index_at_start)
       /\ \A id \in DOMAIN shows : Derived(shows[id]) = Derived(scan_run.index_at_start[id])
       /\ scan_run.pc = "done" =>
             /\ scan_run.result = "Ok"
             /\ scan_run.summary.updated = scan_run.summary.shows_processed
             /\ scan_run.summary.updated =
                    Cardinality(ShowDirectories(scan_run.disk, scan_run.config))

\* a second run over two show directories has returned: two updates, no
\* insertion, and a last_scan that advanced
C25_Witness ==
    /\ SecondRun
    /\ scan_run.pc = "done"
    /\ scan_run.summary.updated = 2
    /\ scan_run.summary.inserted = 0
    /\ shows # scan_run.index_at_start


(* ---- C26 ---- *)

\* the ids of the rows whose path is the candidate's, string for string
RowsAt(shws, path) == {id \in DOMAIN shws : shws[id].path = path}

\* the step rewrote row id with the candidate's values and touched no other row
Overwrites(id, show) ==
    /\ Len(shows') = Len(shows)
    /\ \A f \in {"title", "path", "location", "size_bytes", "season_count",
                 "episode_count", "thumbnail_path", "source"} : shows'[id][f] = show[f]
    /\ \E timestamp \in ScanTimes(shows) : shows'[id].last_scan = {timestamp}
    /\ \A other \in DOMAIN shows \ {id} : shows'[other] = shows[other]

\* the step added one row, with the candidate's values, after the rows there were
InsertsOne(show) ==
    /\ Len(shows') = Len(shows) + 1
    /\ SubSeq(shows', 1, Len(shows)) = shows
    /\ Derived(shows'[Len(shows')]) = Derived(BoundRow(show, 0))

\* C26: upsert_show matches by the exact path: when a row with the candidate's
\* path exists, the row keeps its id, gets the candidate's title, location,
\* size_bytes, season_count, episode_count, thumbnail_path and source and a new
\* last_scan, and the outcome counted is Updated; when there is none, exactly
\* one row is inserted and the outcome counted is Inserted; so the Inserted
\* outcomes of a scan are as many as the rows the scan added
C26_UpsertByPath ==
    /\ [][UpsertStep /\ RowsAt(shows, NextCandidate.path) # {} =>
            /\ \A id \in RowsAt(shows, NextCandidate.path) : Overwrites(id, NextCandidate)
            /\ scan_run'.summary.updated = scan_run.summary.updated + 1
            /\ scan_run'.summary.inserted = scan_run.summary.inserted]_vars
    /\ [][UpsertStep /\ RowsAt(shows, NextCandidate.path) = {} =>
            /\ InsertsOne(NextCandidate)
            /\ scan_run'.summary.inserted = scan_run.summary.inserted + 1
            /\ scan_run'.summary.updated = scan_run.summary.updated]_vars
    /\ [](scan_run.pc # "idle" =>
            scan_run.summary.inserted = Len(shows) - Len(scan_run.index_at_start))


(* ---- C27 ---- *)

\* the rows of a table
Rows(shws) == {shws[id] : id \in DOMAIN shws}

\* the run in progress or last returned ended with upsert_show's error
ScanFailed == scan_run.result = "Err"

\* C27: when the upsert of a candidate fails, the rows the same run upserted
\* before it stay in the index with the values and last_scan the run gave them;
\* the failing step itself changes no row
C27_EarlierUpsertsKept ==
    /\ [](ScanFailed => \A row \in Rows(scan_run.upserted) : row \in Rows(shows))
    /\ [][~ScanFailed /\ ScanFailed' => shows' = shows]_vars

\* a run failed at its second candidate after it had rewritten the row of the
\* first with values that differ from the ones the run found in the index
C27_Witness ==
    /\ ScanFailed
    /\ Len(scan_run.upserted) = 1
    /\ scan_run.index_at_start # <<>>
    /\ scan_run.upserted[1] \notin Rows(scan_run.index_at_start)
    /\ Derived(scan_run.upserted[1]) \notin {Derived(row) : row \in Rows(scan_run.index_at_start)}
    /\ scan_run.upserted[1] \in Rows(shows)


(* ---- C28 ---- *)

\* event i is read: the reader met no error and no end of input before it
ReadUpTo(events, i) == \A j \in 1..(i - 1) : events[j].type \notin {"Err", "Eof"}

\* event i lies inside a title element: a title start tag before it has no
\* title end tag between itself and the event
InsideTitle(events, i) ==
    \E j \in 1..(i - 1) :
       /\ events[j].type = "Start"
       /\ to_ascii_lowercase(events[j].name) = "title"
       /\ \A k \in (j + 1)..(i - 1) :
             ~(events[k].type = "End" /\ to_ascii_lowercase(events[k].name) = "title")

\* event i is text of the document, plain or in a CDATA section, that is not blank
NonEmptyText(events, i) ==
    /\ events[i].type \in {"Text", "CData"}
    /\ events[i].unescapes
    /\ Trim(events[i].text) # <<>>

\* the first non-empty text inside a title element, if there is one
FirstTitleText(events) ==
    LET hits == {i \in DOMAIN events :
                    /\ ReadUpTo(events, i)
                    /\ InsideTitle(events, i)
                    /\ NonEmptyText(events, i)}
    IN IF hits = {} THEN {}
       ELSE {Trim(events[CHOOSE i \in hits : \A j \in hits : i <= j].text)}

\* title and provenance as specified for the show directory show_path
SpecifiedTitle(files, content, show_path) ==
    LET text == IF Join(show_path, <<"tvshow.nfo">>) \in files /\ content.utf8
                THEN FirstTitleText(content.events) ELSE {}
    IN IF text # {} THEN [title |-> text, source |-> {"fs_scan_nfo"}]
       ELSE [title |-> {<<file_name(show_path)>>}, source |-> {"fs_scan"}]

\* the candidates run_scan holds while it upserts a library's shows
HeldCandidates ==
    IF scan_run.pc \in {"upsert", "insert"}
    THEN {scan_run.queue[i] : i \in DOMAIN scan_run.queue} ELSE {}

\* C28: the title of a show directory is the first non-empty text inside a
\* title element of its tvshow.nfo, with provenance fs_scan_nfo, when there is
\* such text; otherwise (no file, unreadable, or no non-empty title text) it is
\* the directory's base name, with provenance fs_scan
C28_TitleFromNfo ==
    \A show \in HeldCandidates :
       /\ show.title = SpecifiedTitle(fs, nfo, show.path).title
       /\ show.source = SpecifiedTitle(fs, nfo, show.path).source


(* ---- C29 ---- *)

\* the regular files in the subtree of the directory dir
FilesUnder(files, dir) == {p \in files : IsFile(p) /\ StartsWith(p, dir) /\ p # dir}

\* the files of the subtree with extension nfo, whatever its case, whose name
\* is not tvshow.nfo
EpisodeNfoFiles(files, show_path) ==
    {p \in FilesUnder(files, show_path) :
        /\ \E ext \in extension(file_name(p)) : to_ascii_lowercase(ext) = "nfo"
        /\ to_ascii_lowercase(file_name(p)) # "tvshow.nfo"}

\* the files of the subtree whose extension is one of the video extensions
VideoFiles(files, show_path) ==
    {p \in FilesUnder(files, show_path) :
        \E ext \in extension(file_name(p)) : to_ascii_lowercase(ext) \in VIDEO_EXTENSIONS}

\* C29: the episode_count of a show directory is the number of .nfo files in
\* its subtree other than tvshow.nfo when there is at least one, and otherwise
\* the number of video files in its subtree
C29_EpisodeCount ==
    \A show \in HeldCandidates :
       show.episode_count =
          {IF Cardinality(EpisodeNfoFiles(fs, show.path)) >= 1
           THEN Cardinality(EpisodeNfoFiles(fs, show.path))
           ELSE Cardinality(VideoFiles(fs, show.path))}

\* a show directory with two episode .nfo files and one video file is counted
\* as two episodes
C29_Witness ==
    \E show \in HeldCandidates :
       /\ Cardinality(EpisodeNfoFiles(fs, show.path)) = 2
       /\ Cardinality(VideoFiles(fs, show.path)) = 1
       /\ show.episode_count = {2}


(* ---- C30 ---- *)

\* the immediate subdirectories of the show directory whose subtree holds a
\* video file
SeasonDirectories(files, show_path) ==
    {d \in files :
        /\ ~IsFile(d)
        /\ StartsWith(d, show_path)
        /\ Len(d) = Len(show_path) + 1
        /\ VideoFiles(files, d) # {}}

\* the video files that lie directly in the show directory
VideosAtRoot(files, show_path) ==
    {p \in VideoFiles(files, show_path) : Len(p) = Len(show_path) + 1}

\* C30: the season_count of a show directory is the number of its immediate
\* subdirectories whose subtree holds a video file; without such a
\* subdirectory it is 1 when a video file lies directly in the show directory
\* and 0 when the subtree holds no video file
C30_SeasonCount ==
    \A show \in HeldCandidates :
       show.season_count =
          {IF SeasonDirectories(fs, show.path) # {}
           THEN Cardinality(SeasonDirectories(fs, show.path))
           ELSE IF VideosAtRoot(fs, show.path) # {} THEN 1 ELSE 0}

\* a show directory with a video file of its own, one in a season directory
\* and one two levels down in another has two seasons
C30_Witness ==
    \E show \in HeldCandidates :
       /\ VideosAtRoot(fs, show.path) # {}
       /\ Cardinality(SeasonDirectories(fs, show.path)) = 2
       /\ \E p \in VideoFiles(fs, show.path) : Len(p) = Len(show.path) + 3
       /\ show.season_count = {2}


(* ---- C31 ---- *)

\* the path lies under the root the configuration value names, if it names one
UnderRoot(path, value) == Trim(value) # <<>> /\ StartsWith(path, Trim(value))

\* scanner and admission have both located the path
Located == probe.pc = "located" /\ probe.scanned /\ probe.admitted

\* C31: the scanner records hot for a path under the hot root, else cold for a
\* path under the cold root, else nothing; with both roots non-blank the
\* scanner records hot (cold) exactly when admission detects the show in the
\* hot (cold) tier, and nothing exactly when admission fails with PathMismatch
C31_SameLocation ==
    Located =>
       /\ probe.scanner =
             IF UnderRoot(probe.path, probe.config.hot_root) THEN {HOT}
             ELSE IF UnderRoot(probe.path, probe.config.cold_root) THEN {COLD}
             ELSE {}
       /\ Trim(probe.config.hot_root) # <<>> /\ Trim(probe.config.cold_root) # <<>> =>
             /\ probe.scanner = {HOT} <=> probe.admission = HOT
             /\ probe.scanner = {COLD} <=> probe.admission = COLD
             /\ probe.scanner = {} <=> probe.admission = "PathMismatch"

\* a path under both roots, the cold root lying in the hot one: scanner and
\* admission both say hot
C31_Witness ==
    /\ Located
    /\ probe.path = <<"h", "c", "s">>
    /\ Trim(probe.config.hot_root) = <<"h">>
    /\ Trim(probe.config.cold_root) = <<"h", "c">>
    /\ probe.scanner = {HOT}
    /\ probe.admission = HOT


(* ---- C32 ---- *)

\* the row has an error_message
HasMessage(row) == row.error_message # {}

\* C32: a job row has an error_message exactly when its status is failed, in
\* every reachable state; the claim of a job and its finalization as success
\* leave the row without error_message
C32_MessageIffFailed ==
    /\ [](\A id \in JobIds(jobs) : HasMessage(jobs[id]) <=> Status(id) = STATUS_FAILED)
    /\ [][\A id \in JobIds(jobs) :
            Status(id) = STATUS_QUEUED /\ jobs'[id].status = STATUS_RUNNING
               => ~HasMessage(jobs'[id])]_vars
    /\ [][\A id \in JobIds(jobs) : BecomesSuccess(id) => ~HasMessage(jobs'[id])]_vars

\* one job has failed and carries its message, another one has succeeded and
\* carries none
C32_Witness ==
    \E a, b \in JobIds(jobs) :
       /\ Status(a) = STATUS_FAILED
       /\ HasMessage(jobs[a])
       /\ Status(b) = STATUS_SUCCESS
       /\ ~HasMessage(jobs[b])
       /\ b \in committed


(* ---- C33 ---- *)

\* the index as the scan at startup left it
IndexAtStart == run_scan(<<>>, InitialFiles, NoNfo, CfgNormal, 0)

\* the entries of show id, relative to the show's directory
ShowContent(id) ==
    {StripPrefix(p, IndexAtStart[id].path) :
        p \in {q \in InitialFiles : StartsWith(q, IndexAtStart[id].path)}}

\* the show has its directory and every entry of it on disk at the path the
\* index records
OnDiskAtRecordedPath(id) ==
    \A rel \in ShowContent(id) : Join(shows[id].path, rel) \in fs

\* C33: with one worker and the configuration never edited, whatever the
\* admissions (several jobs for one show included), worker steps, failures and
\* abrupt stops, every show of the index has its files on disk at its
\* recorded path: the worker never removes the tree the index points to
C33_RecordedTreeKept == \A id \in DOMAIN shows : OnDiskAtRecordedPath(id)


(* ---- C34 ---- *)

\* the worker is executing a job that was running at the last abrupt stop
Resumed == Executing /\ job.id \in resumeCand

\* the entries of the source tree the walk has already handled
Walked ==
    {q \in fs : StartsWith(q, job.source_path)} \ {walk[i] : i \in 1..Len(walk)}

\* until the resumed run copies a file, the row it fetched carries the
\* progress_bytes stored before the stop
FetchedIsStored ==
    (Resumed /\ pc \in {"clean", "mkdest"}) =>
        job.progress_bytes = jobs[job.id].progress_bytes

\* the counter of a resumed run is the progress stored before the stop plus
\* the size of every file of the source tree handled so far, the first one
\* included
CountsFromStored ==
    (Resumed /\ pc \in {"walk", "finalize"}) =>
        copied = UnwrapOr(job.progress_bytes, 0) + SumSizes(Walked)

\* at the end of the walk of a resumed run every entry of the source tree has
\* its copy under the destination
WholeTreeCopied ==
    (Resumed /\ pc = "finalize") =>
        \A q \in fs :
            StartsWith(q, job.source_path) =>
                Join(job.destination_path, StripPrefix(q, job.source_path)) \in fs

\* the removal at the start of a resumed run, when the file system does not
\* refuse it, leaves nothing at the destination
PartialDestinationRemoved ==
    (Resumed /\ pc = "clean" /\ pc' = "mkdest" /\ faults' = faults) =>
        \A q \in fs' : ~StartsWith(q, job.destination_path)

\* no step lowers the progress_bytes stored for a job
ProgressNotLowered ==
    \A id \in JobIds(jobs) : Progress(id) <= UnwrapOr(jobs'[id].progress_bytes, -1)

\* C34: a job resumed after an abrupt stop has its partial destination removed
\* and every file of its source tree copied again, with the copied-bytes
\* counter starting from the progress_bytes stored before the stop and not
\* from zero; the progress_bytes stored for a job never decreases, across
\* resumes included
C34_ResumeCountsOn ==
    /\ [](FetchedIsStored /\ CountsFromStored /\ WholeTreeCopied)
    /\ [][PartialDestinationRemoved]_vars
    /\ [][ProgressNotLowered]_vars

\* a resumed run at the end of its walk: progress had been stored before the
\* stop, both files are copied again, and the counter exceeds the total
C34_Witness ==
    /\ Resumed
    /\ pc = "finalize"
    /\ job.source_path # job.destination_path
    /\ UnwrapOr(job.progress_bytes, 0) > 0
    /\ copied = UnwrapOr(job.progress_bytes, 0) + TreeSize(fs, job.source_path)
    /\ copied > Total(job.id)
    /\ Progress(job.id) = Total(job.id)
    /\ Join(job.destination_path, <<"f1">>) \in fs
    /\ Join(job.destination_path, <<"f2">>) \in fs


(* ---- C35 ---- *)

\* what is on disk at and under the destination path of the job in execution
DestinationTree == {q \in fs : StartsWith(q, job.destination_path)}

\* the job in execution has just been committed as success
JustSucceeded == pc = "rmsrc"

\* the removal at the start of execution: unless the file system refuses it,
\* nothing is left at the destination; refused, the job goes on unfailed
InitialRemoval ==
    (pc = "clean" /\ pc' # pc /\ crashes' = crashes) =>
        /\ pc' = "mkdest"
        /\ jobs' = jobs
        /\ err' = err
        /\ faults' = faults => \A q \in fs' : ~StartsWith(q, job.destination_path)

\* the destination directory is there again when the walk begins
Recreated ==
    (pc = "mkdest" /\ pc' \in {"walk", "finalize"}) => job.destination_path \in fs'

\* C35 as claimed: execution first removes a directory present at
\* destination_path and recreates it, a refused removal does not fail the
\* job, and when the job reaches success (after earlier attempts cut short or
\* not) the destination tree holds a copy of every file and directory the
\* source tree had when execution began, and nothing else.
C35_DestinationIsTheCopy ==
    /\ [](JustSucceeded => DestinationTree = CopiedTree)
    /\ [][InitialRemoval]_vars
    /\ [][Recreated]_vars


(* ---- C36 ---- *)

\* the jobs that succeeded, whose source tree is removed and whose show the
\* index still records at their destination
MovedJobs ==
    {id \in JobIds(jobs) :
        /\ Status(id) = STATUS_SUCCESS
        /\ jobs[id].source_path \notin fs
        /\ jobs[id].show_id \in DOMAIN shows
        /\ shows[jobs[id].show_id].path = jobs[id].destination_path}

\* the candidates a scan of the disk as it is derives for the directory path
ScanOf(path) ==
    LET found == Candidates(fs, nfo, config) IN
    {found[i] : i \in {k \in DOMAIN found : found[k].path = path}}

\* the row has the path-dependent fields of the candidate
SamePathFields(row, show) ==
    /\ row.path = show.path
    /\ row.location = show.location
    /\ row.thumbnail_path = show.thumbnail_path

\* the row of every moved show has the path-dependent fields a scan of its
\* destination directory derives
MovedRowsAsScanned ==
    \A id \in MovedJobs :
        /\ ScanOf(jobs[id].destination_path) # {}
        /\ \A show \in ScanOf(jobs[id].destination_path) :
              SamePathFields(shows[jobs[id].show_id], show)

\* a scan that began after the move upserts the moved show into its row
UpsertsMovedRow ==
    \A id \in MovedJobs :
        (/\ UpsertStep
         /\ NextCandidate.path = jobs[id].destination_path
         /\ jobs[id].show_id \in DOMAIN scan_run.index_at_start
         /\ scan_run.index_at_start[jobs[id].show_id].path = jobs[id].destination_path)
            => /\ Len(shows') = Len(shows)
               /\ shows'[jobs[id].show_id].path = jobs[id].destination_path
               /\ SamePathFields(shows'[jobs[id].show_id], NextCandidate)

\* C36 as claimed: after a job succeeded and its source tree is removed, the
\* configuration unchanged, the show row's path, location and thumbnail_path
\* are those a scan of the destination directory derives, and a subsequent
\* scan updates that same row without inserting a new one.
C36_MoverWritesWhatScanDerives ==
    /\ []MovedRowsAsScanned
    /\ [][UpsertsMovedRow]_vars

\* a later scan has upserted a moved show into the row the move rewrote
C36_ScanAfterMove ==
    \E id \in MovedJobs :
        /\ scan_run.index_at_start # <<>>
        /\ scan_run.index_at_start[jobs[id].show_id].path = jobs[id].destination_path
        /\ \E i \in DOMAIN scan_run.upserted :
              scan_run.upserted[i].path = jobs[id].destination_path


(* ---- C37 ---- *)

\* the scan tasks spawned and not finished
RunningScans == Len(triggers.tasks)

\* handler k looks at scan_status in this step
ReadsStatus(k) == triggers.req[k].pc = "entered" /\ triggers'.req[k].pc # "entered"

\* a handler that looks at scan_status while a scan task runs answers 409 and
\* goes no further
RejectedWhileScanning ==
    \A k \in TriggerIds :
        (ReadsStatus(k) /\ RunningScans > 0) =>
            /\ triggers'.req[k].pc = "idle"
            /\ triggers'.req[k].response = "CONFLICT: scan_already_running"

\* C37 as claimed: at most one scan task runs at any time, the scan status is
\* Running whenever a scan task runs, and in every interleaving of concurrent
\* trigger_scan requests a trigger that finds a scan in progress is rejected
\* and starts no second scan.
C37_OneScanAtATime ==
    /\ [](RunningScans <= 1)
    /\ [](RunningScans > 0 => scan_status = SCAN_RUNNING)
    /\ [][RejectedWhileScanning]_vars


(* ---- C38 ---- *)

\* the worker loop has been left
Exited == pc = "exited"

\* the worker leaves its loop from the check at the top of the loop or from a
\* wait, never from within a job
ExitsBetweenJobs == (~Exited /\ Exited') => pc \in {"loop", "wait"}

\* a job in execution when the signal arrives is carried on: unless a store
\* or filesystem operation failed, no job is left running by the exit
NoCopyAbandoned == (Exited /\ faults = 0) => Running = {}

\* C38: once the shutdown signal is set the worker loop eventually exits, the
\* job it executes terminating, wherever the signal found it (idle, in a wait
\* after a job or after a failed fetch, or within a job); it observes the
\* signal only between jobs and abandons no copy part-way
C38_ShutdownEndsWorker ==
    /\ shutdown ~> Exited
    /\ [][ExitsBetweenJobs]_vars
    /\ []NoCopyAbandoned

\* the signal arrived while a file was being copied with another still to
\* copy; the worker has exited with the job carried to success
C38_Witness ==
    /\ Exited
    /\ shutdown_at # NotSignalled
    /\ shutdown_at.pc = "walk"
    /\ Len(shutdown_at.walk) >= 2
    /\ faults = 0
    /\ \E id \in JobIds(jobs) : Status(id) = STATUS_SUCCESS /\ jobs[id].source_path \notin fs


(* ---- C39 ---- *)

\* deduplicate_show_paths has returned Ok
Deduplicated == probe.pc = "returned" /\ probe.result = "Ok"

\* the rows with the given path
RowsWithPath(rows, path) == {r \in rows : r.path = path}

C39_TwoPaths ==
    /\ Deduplicated
    /\ Cardinality(duplicate_paths(probe.before)) = 2
    /\ Cardinality(probe.rows) = 2

\* the DELETE was refused because a job references a row it selects
C39_Refused ==
    /\ probe.pc = "returned"
    /\ probe.result = "Err"
    /\ duplicate_paths(probe.rows) # {}

====
